---- MODULE Spec2Model ----
(***************************************************************************)
(* Canonical serialization (CSER) of go-opera-asset: the bit stream        *)
(* (utils/bits), the byte stream (utils/fast), the primitive codec and the *)
(* frame packer (utils/cser), and the event codecs built on them (inter).  *)
(*                                                                         *)
(* Representation.  A byte is an integer 0..255.  A Go []byte is a record  *)
(* [arr, len]: arr is the backing array up to the capacity and len the     *)
(* slice length, because fast.Reader.Read slices buf[offset:offset+n] and  *)
(* Go bounds a slice expression by the capacity, while buf[offset] is      *)
(* bounded by the length.  A 64-bit integer is the tuple of its 8 bytes,   *)
(* least significant first, so that 64-bit wraparound is exact.            *)
(***************************************************************************)
EXTENDS Integers, Sequences, FiniteSets, TLC

VARIABLES
    input,    \* how raw was obtained: "intact", "truncated", "extended", "arbitrary";
              \* for an encoder, what it encodes: "transaction", "closure"
    pc,       \* position of the harness
    prog,     \* the write closure: a sequence of primitive operations
    rprog,    \* the read closure
    blob,     \* output of MarshalBinaryAdapter (<<>> before it ran)
    merr,     \* error returned by MarshalBinaryAdapter
    raw,      \* the []byte handed to UnmarshalBinaryAdapter: [arr, len]
    reader,   \* cser.Reader: bit cursor and byte cursor over the split blob
    vals,     \* values the read closure has obtained so far
    err,      \* error returned by UnmarshalBinaryAdapter ("pending" while running)
    lastRead, \* what the last primitive read did (allocation, cursor, panic)
    blob2,    \* re-encoding of the decoded values (<<>> before it ran)
    event,    \* the event (header or payload) or transaction handed to the encoder
    target,   \* the structure e the caller hands to the decoder
    call,     \* the decoding method called on target ("" before the call)
    writer,   \* cser.Writer as the write closure left it
    pack,     \* the signed vote pack extracted from event
    digest,   \* the payload hash reconstructed from pack (<<>> before)
    bw,       \* a bits.Writer written to directly
    br        \* a bits.Reader over the array of bw

vars == <<input, pc, prog, rprog, blob, merr, raw, reader, vals, err, lastRead,
          blob2, event, target, call, writer, pack, digest, bw, br>>

\* the variables of the event codecs
evars == <<event, target, call>>

\* the variables of the vote packs and of the bit stream written directly
svars == <<pack, digest, bw, br>>

----------------------------------------------------------------------------
(* Arithmetic on bytes and on 64-bit words                                 *)

Pow2(n) == <<1, 2, 4, 8, 16, 32, 64, 128, 256>>[n + 1]

RECURSIVE ByteOr(_, _, _)
ByteOr(x, y, n) ==
    IF n = 0 THEN 0
    ELSE (IF x % 2 = 1 \/ y % 2 = 1 THEN 1 ELSE 0)
         + 2 * ByteOr(x \div 2, y \div 2, n - 1)

Zero8 == <<0, 0, 0, 0, 0, 0, 0, 0>>

\* v >> 8 on a 64-bit word
Shr8(d) == Tail(d) \o <<0>>

\* conversion to a narrower unsigned type: uint16(v), uint32(v)
Trunc(d, n) == [i \in 1..8 |-> IF i <= n THEN d[i] ELSE 0]

Borrow(a, b, i) ==
    LET RECURSIVE B(_)
        B(k) == IF k = 0 THEN 0
                ELSE IF a[k] - b[k] - B(k - 1) < 0 THEN 1 ELSE 0
    IN B(i)

\* a - b modulo 2^64
Sub64(a, b) == [i \in 1..8 |-> (a[i] - b[i] - Borrow(a, b, i - 1) + 256) % 256]

\* -v modulo 2^64
Neg64(d) == Sub64(Zero8, d)

\* v < 0 for the int64 with these bytes
IsNeg64(d) == d[8] >= 128

\* a < b as unsigned 64-bit words
Less64(a, b) ==
    LET diff == {i \in 1..8 : a[i] # b[i]}
    IN diff # {} /\ (LET m == CHOOSE i \in diff : \A j \in diff : j <= i
                     IN a[m] < b[m])

\* a word below 2^31 as an integer, and back
FitsInt(d) == d[5] = 0 /\ d[6] = 0 /\ d[7] = 0 /\ d[8] = 0 /\ d[4] < 128
ToInt(d) == d[1] + 256 * d[2] + 65536 * d[3] + 16777216 * d[4]
FromInt(n) ==
    <<n % 256, (n \div 256) % 256, (n \div 65536) % 256,
      (n \div 16777216) % 256, 0, 0, 0, 0>>

----------------------------------------------------------------------------
(* utils/bits: Writer                                                      *)

NewBitsWriter == [Bytes |-> <<>>, bitOffset |-> 0]

byteBitsFree(a) == 8 - a.bitOffset

zeroTopByteBits(v, bits) == IF bits >= 8 THEN 0 ELSE v % Pow2(8 - bits)

\* a.Bytes[len-1] |= byte(v << a.bitOffset)
\* a.Bytes[len-1] |= byte(v)
writeIntoLastByte_NoShift(a, v) ==
    [a EXCEPT !.Bytes[Len(a.Bytes)] = ByteOr(@, v % 256, 8)]

writeIntoLastByte(a, v) ==
    LET n == Len(a.Bytes)
    IN [a EXCEPT !.Bytes[n] = ByteOr(@, ((v % 256) * Pow2(a.bitOffset)) % 256, 8)]

RECURSIVE BitsWrite(_, _, _)
BitsWrite(a0, bits, v) ==
    LET a == IF a0.bitOffset = 0
             THEN [a0 EXCEPT !.Bytes = Append(@, 0)]
             ELSE a0
        free == byteBitsFree(a)
    IN IF bits <= free
       THEN [writeIntoLastByte(a, v) EXCEPT
                !.bitOffset = IF bits = free THEN 0 ELSE @ + bits]
       ELSE BitsWrite(
                [writeIntoLastByte(a, zeroTopByteBits(v, a.bitOffset))
                    EXCEPT !.bitOffset = 0],
                bits - free, v \div Pow2(free))

----------------------------------------------------------------------------
(* utils/bits: Reader.  A read returns [a, v, panic]; panic is TRUE when   *)
(* a.Bytes[a.byteOffset] is out of range.                                  *)

NewBitsReader(bytes) == [Bytes |-> bytes, byteOffset |-> 0, bitOffset |-> 0]

RECURSIVE BitsRead(_, _)
BitsRead(a, bits) ==
    IF bits = 0 THEN [a |-> a, v |-> 0, panic |-> FALSE]
    ELSE
    LET free == 8 - a.bitOffset
    IN IF a.byteOffset >= Len(a.Bytes)
       THEN [a |-> a, v |-> 0, panic |-> TRUE]
       ELSE IF bits <= free
       THEN LET clear == 8 - (a.bitOffset + bits)
                v == zeroTopByteBits(a.Bytes[a.byteOffset + 1], clear)
                        \div Pow2(a.bitOffset)
            IN [a |-> IF bits = free
                      THEN [a EXCEPT !.bitOffset = 0, !.byteOffset = @ + 1]
                      ELSE [a EXCEPT !.bitOffset = @ + bits],
                v |-> v, panic |-> FALSE]
       ELSE LET v0 == a.Bytes[a.byteOffset + 1] \div Pow2(a.bitOffset)
                rest == BitsRead([a EXCEPT !.bitOffset = 0,
                                           !.byteOffset = @ + 1],
                                 bits - free)
            IN [a |-> rest.a,
                v |-> IF rest.panic THEN 0 ELSE v0 + rest.v * Pow2(free),
                panic |-> rest.panic]

\* a view of the first three bits only
BitsView_Peek3(a, bits) == [BitsRead(a, 3) EXCEPT !.a = a]

\* View reads from a copy of the cursor
BitsView(a, bits) == [BitsRead(a, bits) EXCEPT !.a = a]

NonReadBytes(a) == Len(a.Bytes) - a.byteOffset

NonReadBits(a) == NonReadBytes(a) * 8 - a.bitOffset

----------------------------------------------------------------------------
(* utils/fast: Reader over a slice [arr, len]                              *)

NewFastReader(arr, len) == [buf |-> arr, blen |-> len, offset |-> 0]

\* b.buf[b.offset : b.offset+n]: Go checks the upper index against the capacity
FastRead(b, n) ==
    IF n < 0 \/ b.offset + n > Len(b.buf)
    THEN [b |-> b, v |-> <<>>, panic |-> TRUE]
    ELSE [b |-> [b EXCEPT !.offset = @ + n],
          v |-> SubSeq(b.buf, b.offset + 1, b.offset + n),
          panic |-> FALSE]

\* b.buf[b.offset]: Go checks the index against the length
FastReadByte(b) ==
    IF b.offset >= b.blen
    THEN [b |-> b, v |-> 0, panic |-> TRUE]
    ELSE [b |-> [b EXCEPT !.offset = @ + 1],
          v |-> b.buf[b.offset + 1], panic |-> FALSE]

FastEmpty(b) == b.blen = b.offset

FastPosition(b) == b.offset

----------------------------------------------------------------------------
(* utils/cser/read_writer.go: low-level encoders                           *)

ErrNonCanonicalEncoding == "ErrNonCanonicalEncoding"
ErrMalformedEncoding == "ErrMalformedEncoding"
ErrTooLargeAlloc == "ErrTooLargeAlloc"

\* a Go runtime panic (index or slice bounds out of range)
RuntimePanic == "runtime error"
NoPanic == "none"

NewWriter == [BitsW |-> NewBitsWriter, BytesW |-> <<>>]

\* the reverse-logic varint of the frame suffix: the stop byte carries 0x80
RECURSIVE writeUint64Compact(_)
writeUint64Compact(v) ==
    LET chunk == v % 128
        v1 == v \div 128
    IN IF v1 = 0 THEN <<chunk + 128>>
       ELSE <<chunk>> \o writeUint64Compact(v1)

VarintNonCanonical_Never(i, stop, word) == FALSE

\* the canonical check of readUint64Compact
VarintNonCanonical(i, stop, word) == i > 0 /\ stop /\ word = 0

\* reads the suffix varint from a fast.Reader; the value is kept as its
\* 7-bit words, least significant first
RECURSIVE readUint64Compact(_, _, _)
readUint64Compact(b, i, words) ==
    LET rb == FastReadByte(b)
        chunk == rb.v
        stop == chunk >= 128
        word == chunk % 128
    IN IF rb.panic
       THEN [b |-> b, words |-> words, panic |-> RuntimePanic]
       ELSE IF VarintNonCanonical(i, stop, word)
       THEN [b |-> rb.b, words |-> words, panic |-> ErrNonCanonicalEncoding]
       ELSE IF stop
       THEN [b |-> rb.b, words |-> Append(words, word), panic |-> NoPanic]
       ELSE readUint64Compact(rb.b, i + 1, Append(words, word))

\* n < v for a length n and a varint value given by its 7-bit words
VarintExceeds(words, n) ==
    \/ \E i \in 5..Len(words) : words[i] # 0
    \/ LET w4 == [i \in 1..4 |-> IF i <= Len(words) THEN words[i] ELSE 0]
       IN n < w4[1] + 128 * w4[2] + 16384 * w4[3] + 2097152 * w4[4]

VarintValue(words) ==
    LET w4 == [i \in 1..4 |-> IF i <= Len(words) THEN words[i] ELSE 0]
    IN w4[1] + 128 * w4[2] + 16384 * w4[3] + 2097152 * w4[4]

\* writes v with at least minSize bytes, little endian; yields the bytes written
RECURSIVE writeUint64BitCompact(_, _, _)
writeUint64BitCompact(v, size, minSize) ==
    IF size < minSize \/ v # Zero8
    THEN <<v[1]>> \o writeUint64BitCompact(Shr8(v), size + 1, minSize)
    ELSE <<>>

U64FromBytes_BigEndian(buf) ==
    [i \in 1..8 |-> IF i <= Len(buf) THEN buf[Len(buf) + 1 - i] ELSE 0]

\* v |= uint64(b) << (8*i) over the bytes read
U64FromBytes(buf) == [i \in 1..8 |-> IF i <= Len(buf) THEN buf[i] ELSE 0]

\* the canonical check of readUint64BitCompact
CompactNonCanonical(size, last) == size > 1 /\ last = 0

readUint64BitCompact(b, size) ==
    LET rd == FastRead(b, size)
        last == IF Len(rd.v) = 0 THEN 0 ELSE rd.v[Len(rd.v)]
    IN IF rd.panic
       THEN [b |-> b, v |-> Zero8, panic |-> RuntimePanic]
       ELSE IF CompactNonCanonical(size, last)
       THEN [b |-> rd.b, v |-> Zero8, panic |-> ErrNonCanonicalEncoding]
       ELSE [b |-> rd.b, v |-> U64FromBytes(rd.v), panic |-> NoPanic]

----------------------------------------------------------------------------
(* utils/cser/read_writer.go: Writer.  A write yields [w, panic].          *)

WOk(w) == [w |-> w, panic |-> NoPanic]

\* the length itself, not the offset from minSize, in the bit stream
writeU64_bits_Length(w, minSize, bitsForSize, v) ==
    LET bytes == writeUint64BitCompact(v, 0, minSize)
    IN [BitsW |-> BitsWrite(w.BitsW, bitsForSize, Len(bytes) % Pow2(bitsForSize)),
        BytesW |-> w.BytesW \o bytes]

writeU64_bits(w, minSize, bitsForSize, v) ==
    LET bytes == writeUint64BitCompact(v, 0, minSize)
    IN [BitsW |-> BitsWrite(w.BitsW, bitsForSize, Len(bytes) - minSize),
        BytesW |-> w.BytesW \o bytes]

WriterU8(w, v) == [w EXCEPT !.BytesW = Append(@, v)]
WriterU16(w, v) == writeU64_bits(w, 1, 1, v)
WriterU32(w, v) == writeU64_bits(w, 1, 2, v)
WriterU64(w, v) == writeU64_bits(w, 1, 3, v)
WriterVarUint(w, v) == writeU64_bits(w, 1, 3, v)

WriterBool(w, v) == [w EXCEPT !.BitsW = BitsWrite(@, 1, IF v THEN 1 ELSE 0)]

\* the value itself, not its absolute value, behind the sign bit
WriterI64_NoNegation(w, v) == WriterU64(WriterBool(w, IsNeg64(v)), v)

WriterI64(w, v) ==
    WriterU64(WriterBool(w, IsNeg64(v)), IF IsNeg64(v) THEN Neg64(v) ELSE v)

\* 1<<(8*7) - 1 as a 64-bit word
MaxU56 == <<255, 255, 255, 255, 255, 255, 255, 0>>

WriterU56(w, v) ==
    IF Less64(MaxU56, v)
    THEN [w |-> w, panic |-> "Value too big"]
    ELSE WOk(writeU64_bits(w, 0, 3, v))

WriterFixedBytes(w, v) == [w EXCEPT !.BytesW = @ \o v]

WriterSliceBytes(w, v) ==
    LET Bytes(l) ==
            IF l.panic # NoPanic THEN l ELSE WOk(WriterFixedBytes(l.w, v))
    IN Bytes(WriterU56(w, FromInt(Len(v))))

----------------------------------------------------------------------------
(* utils/cser/read_writer.go: Reader.  A read yields [r, v, panic, alloc]: *)
(* v is the value as a tuple of integers, alloc the size handed to make()  *)
(* (-1 when the read allocates nothing).                                   *)

ROk(r, v) == [r |-> r, v |-> v, panic |-> NoPanic, alloc |-> -1]
RPanic(r, p) == [r |-> r, v |-> <<>>, panic |-> p, alloc |-> -1]

readU64_bits(r, minSize, bitsForSize) ==
    LET Value(sz, rd) ==
            IF rd.panic # NoPanic
            THEN RPanic([BitsR |-> sz.a, BytesR |-> rd.b], rd.panic)
            ELSE ROk([BitsR |-> sz.a, BytesR |-> rd.b], rd.v)
        Size(sz) ==
            IF sz.panic THEN RPanic(r, RuntimePanic)
            ELSE Value(sz, readUint64BitCompact(r.BytesR, sz.v + minSize))
    IN Size(BitsRead(r.BitsR, bitsForSize))

ReaderU8(r) ==
    LET Value(rb) ==
            IF rb.panic THEN RPanic(r, RuntimePanic)
            ELSE ROk([r EXCEPT !.BytesR = rb.b], <<rb.v>>)
    IN Value(FastReadByte(r.BytesR))

\* the conversion uint16(v64) / uint32(v64) of a read value
Narrow(x, n) == [x EXCEPT !.v = IF x.panic = NoPanic THEN Trunc(@, n) ELSE @]

ReaderU16(r) == Narrow(readU64_bits(r, 1, 1), 2)

ReaderU32(r) == Narrow(readU64_bits(r, 1, 2), 4)

ReaderU64(r) == readU64_bits(r, 1, 3)
ReaderVarUint(r) == readU64_bits(r, 1, 3)
ReaderU56(r) == readU64_bits(r, 0, 3)

ReaderBool(r) ==
    LET Value(b) ==
            IF b.panic THEN RPanic(r, RuntimePanic)
            ELSE ROk([r EXCEPT !.BitsR = b.a], <<IF b.v # 0 THEN 1 ELSE 0>>)
    IN Value(BitsRead(r.BitsR, 1))

\* the canonical check of Reader.I64
NegativeZero(neg, abs) == neg /\ abs = Zero8

ReaderI64(r) ==
    LET Value(neg, abs) ==
            IF abs.panic # NoPanic THEN abs
            ELSE IF NegativeZero(neg.v[1] = 1, abs.v)
            THEN RPanic(abs.r, ErrNonCanonicalEncoding)
            ELSE IF neg.v[1] = 1 THEN ROk(abs.r, Neg64(abs.v))
            ELSE ROk(abs.r, abs.v)
        Sign(neg) ==
            IF neg.panic # NoPanic THEN neg
            ELSE Value(neg, ReaderU64(neg.r))
    IN Sign(ReaderBool(r))

ReaderFixedBytes(r, n) ==
    LET Value(rd) ==
            IF rd.panic THEN RPanic(r, RuntimePanic)
            ELSE ROk([r EXCEPT !.BytesR = rd.b], rd.v)
    IN Value(FastRead(r.BytesR, n))

ReaderSliceBytes_CheckAfterRead(r, maxLen) ==
    LET Checked(size, n, rd) ==
            IF rd.panic # NoPanic THEN [rd EXCEPT !.alloc = n]
            ELSE IF Less64(FromInt(maxLen), size.v)
            THEN [RPanic(rd.r, ErrTooLargeAlloc) EXCEPT !.alloc = n]
            ELSE [rd EXCEPT !.alloc = n]
        Bytes(size, n) == Checked(size, n, ReaderFixedBytes(size.r, n))
        Size(size) ==
            IF size.panic # NoPanic THEN size
            ELSE Bytes(size, IF FitsInt(size.v) THEN ToInt(size.v)
                             ELSE 2147483647)
    IN Size(ReaderU56(r))

ReaderSliceBytes(r, maxLen) ==
    LET Size(size) ==
            IF size.panic # NoPanic THEN size
            ELSE IF Less64(FromInt(maxLen), size.v)
            THEN RPanic(size.r, ErrTooLargeAlloc)
            ELSE [ReaderFixedBytes(size.r, ToInt(size.v)) EXCEPT
                     !.alloc = ToInt(size.v)]
    IN Size(ReaderU56(r))

\* a big.Int is its magnitude, big endian without leading zeros (<<>> is 0)
RECURSIVE SetBytes(_)
SetBytes(buf) ==
    IF buf # <<>> /\ buf[1] = 0 THEN SetBytes(Tail(buf)) ELSE buf

\* A *big.Int is its magnitude, big-endian without leading zeros, behind
\* the mark -1 if it is negative; zero is the empty tuple.
\* v.Sign()
BigIntSign(v) == IF v = <<>> THEN 0 ELSE IF v[1] = -1 THEN -1 ELSE 1

\* v.Bytes(): the magnitude
BigIntBytes(v) == IF v # <<>> /\ v[1] = -1 THEN Tail(v) ELSE v

\* v.Bytes() whatever the sign, and a zero byte for zero
WriterBigInt_ZeroByte(w, v) ==
    WriterSliceBytes(w, IF BigIntSign(v) # 0 THEN BigIntBytes(v) ELSE <<0>>)

WriterBigInt(w, v) ==
    WriterSliceBytes(w, IF BigIntSign(v) # 0 THEN BigIntBytes(v) ELSE <<>>)

ReaderBigInt(r) ==
    LET Value(buf) ==
            IF buf.panic # NoPanic THEN buf ELSE [buf EXCEPT !.v = SetBytes(@)]
    IN Value(ReaderSliceBytes(r, 512))

----------------------------------------------------------------------------
(* A closure is a sequence of primitive operations [k, v, n]: k the        *)
(* primitive, v the value written (a tuple of integers), n the argument of *)
(* the read (the buffer length of FixedBytes, maxLen of SliceBytes).       *)
(* "Bits" is a direct w.BitsW.Write(n, v), "Return" a return of the error  *)
(* v from the closure, "Fail" a return of some error of the caller's own.  *)

Op(k, v, n) == [k |-> k, v |-> v, n |-> n]

\* the error a closure returns at a "Fail" operation
ErrCustom == "custom"

WritePrim(w, op) ==
    CASE op.k = "U8" -> WOk(WriterU8(w, op.v[1]))
      [] op.k = "U16" -> WOk(WriterU16(w, op.v))
      [] op.k = "U32" -> WOk(WriterU32(w, op.v))
      [] op.k = "U64" -> WOk(WriterU64(w, op.v))
      [] op.k = "VarUint" -> WOk(WriterVarUint(w, op.v))
      [] op.k = "I64" -> WOk(WriterI64(w, op.v))
      [] op.k = "U56" -> WriterU56(w, op.v)
      [] op.k = "Bool" -> WOk(WriterBool(w, op.v[1] = 1))
      [] op.k = "FixedBytes" -> WOk(WriterFixedBytes(w, op.v))
      [] op.k = "SliceBytes" -> WriterSliceBytes(w, op.v)
      [] op.k = "BigInt" -> WriterBigInt(w, op.v)
      [] op.k = "Bits" -> WOk([w EXCEPT !.BitsW = BitsWrite(@, op.n, op.v[1])])

ReadPrim(r, op) ==
    CASE op.k = "U8" -> ReaderU8(r)
      [] op.k = "U16" -> ReaderU16(r)
      [] op.k = "U32" -> ReaderU32(r)
      [] op.k = "U64" -> ReaderU64(r)
      [] op.k = "VarUint" -> ReaderVarUint(r)
      [] op.k = "I64" -> ReaderI64(r)
      [] op.k = "U56" -> ReaderU56(r)
      [] op.k = "Bool" -> ReaderBool(r)
      [] op.k = "FixedBytes" -> ReaderFixedBytes(r, op.n)
      [] op.k = "SliceBytes" -> ReaderSliceBytes(r, op.n)
      [] op.k = "BigInt" -> ReaderBigInt(r)

----------------------------------------------------------------------------
(* utils/cser/binary.go: the frame packer                                  *)

reversed(b) == [i \in 1..Len(b) |-> b[Len(b) + 1 - i]]

tail(b, cap) == IF Len(b) > cap THEN SubSeq(b, Len(b) - cap + 1, Len(b)) ELSE b

binaryFromCSER(bbits, bbytes) ==
    bbytes \o bbits \o reversed(writeUint64Compact(Len(bbits)))

\* runs the write closure: [w, err, panic]
RECURSIVE RunWrites(_, _, _)
RunWrites(w, ops, i) ==
    IF i > Len(ops) THEN [w |-> w, err |-> "nil", panic |-> NoPanic]
    ELSE IF ops[i].k = "Fail" THEN [w |-> w, err |-> ErrCustom, panic |-> NoPanic]
    ELSE IF ops[i].k = "Return" THEN [w |-> w, err |-> ops[i].v, panic |-> NoPanic]
    ELSE LET Written_(x) ==
                 IF x.panic # NoPanic
                 THEN [w |-> x.w, err |-> "nil", panic |-> x.panic]
                 ELSE RunWrites(x.w, ops, i + 1)
         IN Written_(WritePrim(w, ops[i]))

\* [out, err, panic, w], w the Writer as the closure left it; a panic of
\* the closure is not recovered here
MarshalBinaryAdapter(ops) ==
    LET Pack(c) ==
            IF c.panic # NoPanic
            THEN [out |-> <<>>, err |-> "nil", panic |-> c.panic, w |-> c.w]
            ELSE IF c.err # "nil"
            THEN [out |-> <<>>, err |-> c.err, panic |-> NoPanic, w |-> c.w]
            ELSE [out |-> binaryFromCSER(c.w.BitsW.Bytes, c.w.BytesW),
                  err |-> "nil", panic |-> NoPanic, w |-> c.w]
    IN Pack(RunWrites(NewWriter, ops, 1))

\* splits raw = [arr, len] into the bit region and the byte region; the
\* byte region keeps the capacity of raw
binaryToCSER(in) ==
    LET none == [arr |-> <<>>, len |-> 0]
        Split(sz, len1, bitsSize) ==
            IF sz.panic # NoPanic
            THEN [bbits |-> <<>>, bbytes |-> none, err |-> "nil",
                  panic |-> sz.panic]
            ELSE IF VarintExceeds(sz.words, len1)
            THEN [bbits |-> <<>>, bbytes |-> none,
                  err |-> ErrMalformedEncoding, panic |-> NoPanic]
            ELSE [bbits |-> SubSeq(in.arr, len1 - bitsSize + 1, len1),
                  bbytes |-> [arr |-> in.arr, len |-> len1 - bitsSize],
                  err |-> "nil", panic |-> NoPanic]
        Size(sz) == Split(sz, in.len - FastPosition(sz.b),
                          VarintValue(sz.words))
        Suffix(bitsSizeBuf) ==
            Size(readUint64Compact(
                     NewFastReader(bitsSizeBuf, Len(bitsSizeBuf)), 0, <<>>))
    IN Suffix(reversed(tail(SubSeq(in.arr, 1, in.len), 9)))

Recover_Rethrow(p) == p

\* the deferred function of UnmarshalBinaryAdapter: any panic becomes
\* ErrMalformedEncoding
Recover(p) == ErrMalformedEncoding

\* the canonical checks UnmarshalBinaryAdapter runs after the closure
\* returned nil
TooManyUnreadBitBytes_Strict(a) == NonReadBytes(a) > 0

TooManyUnreadBitBytes(a) == NonReadBytes(a) > 1

TrailingChecks(r) ==
    LET Tail_(tl) ==
            IF tl.panic THEN Recover(RuntimePanic)
            ELSE IF tl.v # 0 THEN ErrNonCanonicalEncoding
            ELSE IF ~FastEmpty(r.BytesR) THEN ErrNonCanonicalEncoding
            ELSE "nil"
    IN IF TooManyUnreadBitBytes(r.BitsR) THEN ErrNonCanonicalEncoding
       ELSE Tail_(BitsRead(r.BitsR, NonReadBits(r.BitsR)))

----------------------------------------------------------------------------
(* Inputs                                                                  *)

\* longest closure
MaxOps == 2
\* spare capacity (zero bytes) behind a slice handed to the decoder
MaxSpare == 1
\* longest arbitrary input blob
MaxRaw == 4

Max64 == <<255, 255, 255, 255, 255, 255, 255, 255>>
MinInt64 == <<0, 0, 0, 0, 0, 0, 0, 128>>
MaxInt64 == <<255, 255, 255, 255, 255, 255, 255, 127>>

\* long enough for the bit region of b || 0x00 to pass the size check
LongBytes == [i \in 1..127 |-> 1]

\* primitive writes with their matching reads
WOps ==
    {Op("U8", <<b>>, 0) : b \in {0, 129}}
    \cup {Op("U16", v, 0) : v \in {Zero8, FromInt(256), FromInt(65535)}}
    \cup {Op("U32", v, 0) : v \in {FromInt(1), <<255, 255, 255, 255, 0, 0, 0, 0>>}}
    \cup {Op("U64", v, 0) : v \in {Zero8, FromInt(256), Max64}}
    \cup {Op("VarUint", v, 0) : v \in {FromInt(128)}}
    \cup {Op("I64", v, 0) : v \in {Zero8, FromInt(1), Max64, MinInt64, MaxInt64}}
    \cup {Op("U56", v, 0) : v \in {Zero8, MaxU56}}
    \cup {Op("Bool", <<b>>, 0) : b \in {0, 1}}
    \cup {Op("FixedBytes", v, Len(v)) : v \in {<<128>>, <<0, 129>>, LongBytes}}
    \cup {Op("SliceBytes", v, 2) : v \in {<<>>, <<0>>, <<1, 128>>}}

RECURSIVE SeqsUpTo(_, _)
SeqsUpTo(S, n) ==
    IF n = 0 THEN {<<>>}
    ELSE LET T == SeqsUpTo(S, n - 1)
         IN T \cup {Append(t, x) : t \in {u \in T : Len(u) = n - 1}, x \in S}

Zeros(n) == [i \in 1..n |-> 0]

NoReader == [BitsR |-> NewBitsReader(<<>>), BytesR |-> NewFastReader(<<>>, 0)]
NoRead == [k |-> "", panic |-> NoPanic, alloc |-> -1, before |-> 0, after |-> 0]
NoRaw == [arr |-> <<>>, len |-> 0]
NoEvent == <<>>
NoPack == <<>>

\* no vote pack extracted, nothing written to the bit stream
NoVotesNoBits ==
    /\ pack = NoPack /\ digest = <<>>
    /\ bw = NewBitsWriter /\ br = NewBitsReader(<<>>)

----------------------------------------------------------------------------
(* The harness: encode a closure's values, hand the blob (intact or        *)
(* tampered with) to UnmarshalBinaryAdapter, run the matching reads.       *)

InitRT ==
    /\ prog \in SeqsUpTo(WOps, MaxOps)
    /\ rprog = prog
    /\ pc = "marshal"
    /\ input = "intact"
    /\ blob = <<>> /\ merr = "nil" /\ raw = NoRaw /\ reader = NoReader
    /\ vals = <<>> /\ err = "pending" /\ lastRead = NoRead /\ blob2 = <<>>
    /\ event = NoEvent /\ target = NoEvent /\ call = ""
    /\ writer = NewWriter /\ NoVotesNoBits

\* MarshalBinaryAdapter(closure)
Marshal ==
    /\ pc = "marshal"
    /\ LET Returned(m) ==
               /\ m.panic = NoPanic
               /\ writer' = m.w
               /\ blob' = m.out
               /\ merr' = m.err
               /\ pc' = IF m.err = "nil" THEN "packed" ELSE "done"
       IN Returned(MarshalBinaryAdapter(prog))
    /\ UNCHANGED <<input, prog, rprog, raw, reader, vals, err, lastRead, blob2>>
    /\ UNCHANGED <<evars, svars>>

\* the blob reaches the decoder as it is
Deliver ==
    /\ pc = "packed"
    /\ \E s \in {0, MaxSpare} :
          raw' = [arr |-> blob \o Zeros(s), len |-> Len(blob)]
    /\ pc' = "ready"
    /\ UNCHANGED <<input, prog, rprog, blob, merr, reader, vals, err, lastRead, blob2>>
    /\ UNCHANGED <<evars, svars, writer>>

\* the decoder gets the prefix b[..k], as a copy or as a slice of b
Truncate ==
    /\ pc = "packed"
    /\ \E k \in 0..(Len(blob) - 1) :
          \E arr \in {SubSeq(blob, 1, k), blob \o Zeros(MaxSpare)} :
              raw' = [arr |-> arr, len |-> k]
    /\ input' = "truncated"
    /\ pc' = "ready"
    /\ UNCHANGED <<prog, rprog, blob, merr, reader, vals, err, lastRead, blob2>>
    /\ UNCHANGED <<evars, svars, writer>>

\* the decoder gets b followed by one 0x00 byte
AppendZero ==
    /\ pc = "packed"
    /\ \E s \in {0, MaxSpare} :
          raw' = [arr |-> blob \o <<0>> \o Zeros(s), len |-> Len(blob) + 1]
    /\ input' = "extended"
    /\ pc' = "ready"
    /\ UNCHANGED <<prog, rprog, blob, merr, reader, vals, err, lastRead, blob2>>
    /\ UNCHANGED <<evars, svars, writer>>

\* UnmarshalBinaryAdapter, step 1 and 2: split the streams, build the Reader
Start ==
    /\ pc = "ready"
    /\ LET Split(s) ==
               IF s.panic # NoPanic
               THEN /\ err' = Recover(s.panic) /\ pc' = "done"
                    /\ reader' = reader
                    /\ lastRead' = [NoRead EXCEPT !.k = "binaryToCSER",
                                                  !.panic = s.panic]
               ELSE IF s.err # "nil"
               THEN /\ err' = s.err /\ pc' = "done" /\ reader' = reader
                    /\ lastRead' = [NoRead EXCEPT !.k = "binaryToCSER"]
               ELSE /\ reader' = [BitsR |-> NewBitsReader(s.bbits),
                                  BytesR |-> NewFastReader(s.bbytes.arr,
                                                           s.bbytes.len)]
                    /\ pc' = "read" /\ err' = err
                    /\ lastRead' = [NoRead EXCEPT !.k = "binaryToCSER"]
       IN Split(binaryToCSER(raw))
    /\ UNCHANGED <<input, prog, rprog, blob, merr, raw, vals, blob2>>
    /\ UNCHANGED <<evars, svars, writer>>

\* UnmarshalBinaryAdapter, step 3: the closure performs its next read
ReadStep ==
    /\ pc = "read"
    /\ Len(vals) < Len(rprog)
    /\ LET op == rprog[Len(vals) + 1]
           Read(x) ==
               /\ reader' = x.r
               /\ lastRead' = [k |-> op.k, panic |-> x.panic, alloc |-> x.alloc,
                               before |-> reader.BytesR.offset,
                               after |-> x.r.BytesR.offset]
               /\ IF x.panic # NoPanic
                  THEN /\ err' = Recover(x.panic) /\ pc' = "done"
                       /\ vals' = vals
                  ELSE /\ vals' = Append(vals, x.v)
                       /\ UNCHANGED <<err, pc>>
       IN IF op.k = "Fail"
          THEN /\ err' = ErrCustom /\ pc' = "done"
               /\ UNCHANGED <<reader, vals, lastRead>>
          ELSE Read(ReadPrim(reader, op))
    /\ UNCHANGED <<input, prog, rprog, blob, merr, raw, blob2>>
    /\ UNCHANGED <<evars, svars, writer>>

\* UnmarshalBinaryAdapter, step 4: the closure returned nil
Finish ==
    /\ pc = "read"
    /\ Len(vals) = Len(rprog)
    /\ err' = TrailingChecks(reader)
    /\ pc' = "done"
    /\ lastRead' = [NoRead EXCEPT !.k = "tail"]
    /\ UNCHANGED <<input, prog, rprog, blob, merr, raw, reader, vals, blob2>>
    /\ UNCHANGED <<evars, svars, writer>>

NextRT == Marshal \/ Deliver \/ Start \/ ReadStep \/ Finish

SpecRT == InitRT /\ [][NextRT]_vars

NextTrunc == Marshal \/ Truncate \/ Start \/ ReadStep \/ Finish

SpecTrunc == InitRT /\ [][NextTrunc]_vars

NextExt == Marshal \/ AppendZero \/ Start \/ ReadStep \/ Finish

SpecExt == InitRT /\ [][NextExt]_vars

----------------------------------------------------------------------------
(* Arbitrary input: any short blob over a few byte values, with some spare *)
(* capacity, decoded by any short read closure; an accepted blob is        *)
(* encoded again from the decoded values.                                  *)

\* longest read closure run over an arbitrary blob
MaxReads == 1

ByteAlphabet == {0, 1, 128, 129, 130}

ROps ==
    {Op(k, <<>>, 0) : k \in {"U8", "U16", "U32", "U64", "VarUint", "I64",
                             "U56", "Bool", "Fail"}}
    \cup {Op("FixedBytes", <<>>, 1)}
    \cup {Op("SliceBytes", <<>>, n) : n \in {1, 255}}

InitAny ==
    /\ prog = <<>>
    /\ rprog \in SeqsUpTo(ROps, MaxReads)
    /\ \E arr \in SeqsUpTo(ByteAlphabet, MaxRaw) :
          \E s \in 0..MaxSpare :
              /\ s <= Len(arr)
              /\ raw = [arr |-> arr, len |-> Len(arr) - s]
    /\ pc = "ready"
    /\ input = "arbitrary"
    /\ blob = <<>> /\ merr = "nil" /\ reader = NoReader
    /\ vals = <<>> /\ err = "pending" /\ lastRead = NoRead /\ blob2 = <<>>
    /\ event = NoEvent /\ target = NoEvent /\ call = ""
    /\ writer = NewWriter /\ NoVotesNoBits

\* the closure that writes the decoded values with the matching writes
Rewrites == [i \in 1..Len(rprog) |-> [rprog[i] EXCEPT !.v = vals[i]]]

\* MarshalBinaryAdapter over the values an accepted decode produced
Reencode ==
    /\ pc = "done"
    /\ input = "arbitrary"
    /\ err = "nil"
    /\ LET Returned(m) ==
               /\ m.panic = NoPanic
               /\ writer' = m.w
               /\ m.err = "nil"
               /\ blob2' = m.out
       IN Returned(MarshalBinaryAdapter(Rewrites))
    /\ pc' = "reencoded"
    /\ UNCHANGED <<input, prog, rprog, blob, merr, raw, reader, vals, err, lastRead>>
    /\ UNCHANGED <<evars, svars>>

NextAny == Start \/ ReadStep \/ Finish \/ Reencode

SpecAny == InitAny /\ [][NextAny]_vars

RawBytes == SubSeq(raw.arr, 1, raw.len)

----------------------------------------------------------------------------
(* Oversized slices: a forged encoder declares a slice length L and ships  *)
(* any number of payload bytes; the decoder reads SliceBytes(max).         *)

\* most payload bytes the forged encoder ships
MaxPayload == 3

\* ProtocolMaxMsgSize of inter/event_serializer.go, 10 * 1024 * 1024
ProtocolMaxMsgSize == 10485760

\* 2^30
Pow30 == <<0, 0, 0, 64, 0, 0, 0, 0>>

DeclaredLens == {FromInt(n) : n \in 0..MaxPayload} \cup {Pow30, MaxU56}

InitAlloc ==
    /\ \E L \in DeclaredLens, p \in 0..MaxPayload :
          prog = <<Op("U56", L, 0), Op("FixedBytes", [i \in 1..p |-> 7], p)>>
    /\ \E max \in {0, 1, 2, ProtocolMaxMsgSize} :
          rprog = <<Op("SliceBytes", <<>>, max)>>
    /\ pc = "marshal"
    /\ input = "intact"
    /\ blob = <<>> /\ merr = "nil" /\ raw = NoRaw /\ reader = NoReader
    /\ vals = <<>> /\ err = "pending" /\ lastRead = NoRead /\ blob2 = <<>>
    /\ event = NoEvent /\ target = NoEvent /\ call = ""
    /\ writer = NewWriter /\ NoVotesNoBits

SpecAlloc == InitAlloc /\ [][NextRT]_vars

----------------------------------------------------------------------------
(* inter/event_serializer.go: the event header.  An event is a record of   *)
(* its fields; 32- and 64-bit fields are 64-bit words, a hash is its 32    *)
(* bytes, prevEpochHash is <<>> when nil, and a parent is its 32-byte id:  *)
(* epoch (4 bytes, big endian), lamport (4 bytes, big endian), 24 bytes.   *)

ErrSerMalformedEvent == "ErrSerMalformedEvent"
ErrTooLowEpoch == "ErrTooLowEpoch"
ErrUnknownVersion == "ErrUnknownVersion"

MaxSerializationVersion == 1

\* length of Signature in bytes
SigSize == 65

\* the 32-byte constant of each version for a payload without content
EmptyPayloadHash(version) ==
    IF version = 1 THEN [i \in 1..32 |-> 197] ELSE [i \in 1..32 |-> 86]

\* big-endian bytes of a 32-bit field, and back
BigEndian32(d) == <<d[4], d[3], d[2], d[1]>>
FromBigEndian32(b) == <<b[4], b[3], b[2], b[1], 0, 0, 0, 0>>

\* hash.Event: p.Lamport(), p.Bytes()[8:]
ParentLamport(p) == FromBigEndian32(SubSeq(p, 5, 8))
ParentSuffix(p) == SubSeq(p, 9, 32)

\* dag.MutableBaseEvent: SetEpoch, SetLamport, SetID(h), ID()
ParentID(epoch, lamport, h) == BigEndian32(epoch) \o BigEndian32(lamport) \o h

\* a - b on uint32
Sub32(a, b) == Trunc(Sub64(a, b), 4)

BoolOp(b) == Op("Bool", <<IF b THEN 1 ELSE 0>>, 0)

\* the condition under which Event.MarshalCSER writes the payload hash
AnyContent(e) ==
    e.anyTxs \/ e.anyMisbehaviourProofs \/ e.anyBlockVotes \/ e.anyEpochVote

RECURSIVE ParentWrites(_, _)
ParentWrites(e, i) ==
    IF i > Len(e.parents) THEN <<>>
    ELSE LET p == e.parents[i]
         IN IF Less64(e.lamport, ParentLamport(p))
            THEN <<Op("Return", ErrSerMalformedEvent, 0)>>
            ELSE <<Op("U32", Sub32(e.lamport, ParentLamport(p)), 0),
                   Op("FixedBytes", ParentSuffix(p), 24)>>
                 \o ParentWrites(e, i + 1)

\* int64(e.creationTime) - int64(e.medianTime)
MedianTimeDiff(creationTime, medianTime) == Sub64(creationTime, medianTime)

\* the writes of (e *Event) MarshalCSER, in order
EventMarshalCSER(e) ==
    (IF e.version > 0
     THEN <<Op("Bits", <<0>>, 2), Op("U8", <<e.version>>, 0)>>
     ELSE IF Less64(e.epoch, FromInt(256))
     THEN <<Op("Return", ErrTooLowEpoch, 0)>>
     ELSE <<>>)
    \o (IF e.version > 0 THEN <<Op("U16", e.netForkID, 0)>> ELSE <<>>)
    \o <<Op("U32", Trunc(e.epoch, 4), 0),
         Op("U32", Trunc(e.lamport, 4), 0),
         Op("U32", Trunc(e.creator, 4), 0),
         Op("U32", Trunc(e.seq, 4), 0),
         Op("U32", Trunc(e.frame, 4), 0),
         Op("U64", e.creationTime, 0),
         Op("I64", MedianTimeDiff(e.creationTime, e.medianTime), 0),
         Op("U64", e.gasPowerUsed, 0),
         Op("U64", e.gasPowerLeft[1], 0),
         Op("U64", e.gasPowerLeft[2], 0),
         Op("U32", FromInt(Len(e.parents)), 0)>>
    \o ParentWrites(e, 1)
    \o <<BoolOp(e.prevEpochHash # <<>>)>>
    \o (IF e.prevEpochHash # <<>>
        THEN <<Op("FixedBytes", e.prevEpochHash, 32)>> ELSE <<>>)
    \o <<BoolOp(e.anyTxs)>>
    \o (IF e.version > 0
        THEN <<BoolOp(e.anyMisbehaviourProofs), BoolOp(e.anyEpochVote),
               BoolOp(e.anyBlockVotes)>>
        ELSE <<>>)
    \o (IF AnyContent(e)
        THEN <<Op("FixedBytes", e.payloadHash, 32)>> ELSE <<>>)
    \o <<Op("SliceBytes", e.extra, ProtocolMaxMsgSize)>>

\* (e *Event) MarshalBinary
EventMarshalBinary(e) == MarshalBinaryAdapter(EventMarshalCSER(e))

----------------------------------------------------------------------------
(* Decoders.  A decoder runs over a state [r, f, err, panic]: r the        *)
(* cser.Reader, f the local variables read so far, err the error it has    *)
(* returned ("nil" while running), panic the panic it has raised.          *)

Running(s) == s.err = "nil" /\ s.panic = NoPanic

\* one read of a decoder: name := r.<op>()
Field(name, op) == [name |-> name, op |-> op]

\* the reads name := r.<op>() of a decoder, in order, up to the first panic
RECURSIVE Rd(_, _)
Rd(s, reads) ==
    IF ~Running(s) \/ reads = <<>> THEN s
    ELSE LET Read(x) ==
                 IF x.panic # NoPanic
                 THEN [s EXCEPT !.r = x.r, !.panic = x.panic]
                 ELSE Rd([s EXCEPT !.r = x.r, !.f[reads[1].name] = x.v],
                         Tail(reads))
         IN Read(ReadPrim(s.r, reads[1].op))

\* if cond { return e }
Ret(s, cond, e) == IF Running(s) /\ cond THEN [s EXCEPT !.err = e] ELSE s

\* name := v
Let(s, name, v) == IF Running(s) THEN [s EXCEPT !.f[name] = v] ELSE s

\* the zero value of MutableEventPayload
ZeroEvent ==
    [version |-> 0, netForkID |-> Zero8, epoch |-> Zero8, lamport |-> Zero8,
     creator |-> Zero8, seq |-> Zero8, frame |-> Zero8,
     creationTime |-> Zero8, medianTime |-> Zero8, gasPowerUsed |-> Zero8,
     gasPowerLeft |-> <<Zero8, Zero8>>, parents |-> <<>>,
     prevEpochHash |-> <<>>, anyTxs |-> FALSE,
     anyMisbehaviourProofs |-> FALSE, anyEpochVote |-> FALSE,
     anyBlockVotes |-> FALSE, payloadHash |-> Zeros(32), extra |-> <<>>,
     sig |-> Zeros(SigSize), txs |-> <<>>, misbehaviourProofs |-> <<>>,
     epochVote |-> [Epoch |-> Zero8, Vote |-> Zeros(32)],
     blockVotes |-> [Start |-> Zero8, Epoch |-> Zero8, Votes |-> <<>>]]

\* the local variables of eventUnmarshalCSER
HeaderLocals ==
    [version |-> <<0>>, netForkID |-> Zero8, epoch |-> Zero8,
     lamport |-> Zero8, creator |-> Zero8, seq |-> Zero8, frame |-> Zero8,
     creationTime |-> Zero8, medianTimeDiff |-> Zero8,
     gasPowerUsed |-> Zero8, gasPowerLeft0 |-> Zero8, gasPowerLeft1 |-> Zero8,
     parentsNum |-> Zero8, lamportDiff |-> Zero8, h |-> <<>>, parents |-> <<>>,
     prevEpochHashExists |-> <<0>>, prevEpochHash |-> <<>>,
     anyTxs |-> <<0>>, anyMisbehaviourProofs |-> <<0>>,
     anyEpochVote |-> <<0>>, anyBlockVotes |-> <<0>>,
     payloadHash |-> <<>>, extra |-> <<>>]

\* the marker and a version byte taken as it comes
ReadVersion_AnyVersion(s) ==
    LET Marker(view) ==
            IF view.panic THEN [s EXCEPT !.panic = RuntimePanic]
            ELSE IF view.v = 0
            THEN Rd([s EXCEPT !.r.BitsR = BitsRead(@, 2).a],
                    <<Field("version", Op("U8", <<>>, 0))>>)
            ELSE s
    IN Marker(BitsView(s.r.BitsR, 2))

\* step 1 of eventUnmarshalCSER: the version marker
ReadVersion(s) ==
    LET Version(s1) == Ret(s1, s1.f.version[1] = 0, ErrNonCanonicalEncoding)
        Marker(view) ==
            IF view.panic THEN [s EXCEPT !.panic = RuntimePanic]
            ELSE IF view.v = 0
            THEN Version(Rd([s EXCEPT !.r.BitsR = BitsRead(@, 2).a],
                            <<Field("version", Op("U8", <<>>, 0))>>))
            ELSE s
    IN Marker(BitsView(s.r.BitsR, 2))

\* step 4 of eventUnmarshalCSER: the loop over the parents
RECURSIVE ReadParents(_, _)
ReadParents(s, i) ==
    IF ~Running(s) \/ ~Less64(FromInt(i), s.f.parentsNum) THEN s
    ELSE LET SetID(s2) ==
                 Let(s2, "parents",
                     Append(s2.f.parents,
                            ParentID(s2.f.epoch,
                                     Sub32(s2.f.lamport, s2.f.lamportDiff),
                                     s2.f.h)))
         IN ReadParents(
                SetID(Rd(s, <<Field("lamportDiff", Op("U32", <<>>, 0)),
                              Field("h", Op("FixedBytes", <<>>, 24))>>)),
                i + 1)

\* steps 1 to 8 of eventUnmarshalCSER and its validation
eventUnmarshalCSER_Reads(r) ==
    LET U32 == Op("U32", <<>>, 0)
        U64 == Op("U64", <<>>, 0)
        Bool == Op("Bool", <<>>, 0)
        Hash == Op("FixedBytes", <<>>, 32)
        Version(s) ==
            Ret(s, s.f.version[1] > MaxSerializationVersion, ErrUnknownVersion)
        Fields(s) ==
            Rd(s, (IF s.f.version[1] > 0
                   THEN <<Field("netForkID", Op("U16", <<>>, 0))>> ELSE <<>>)
                  \o <<Field("epoch", U32), Field("lamport", U32),
                       Field("creator", U32), Field("seq", U32),
                       Field("frame", U32), Field("creationTime", U64),
                       Field("medianTimeDiff", Op("I64", <<>>, 0)),
                       Field("gasPowerUsed", U64),
                       Field("gasPowerLeft0", U64),
                       Field("gasPowerLeft1", U64),
                       Field("parentsNum", U32)>>)
        ParentsNum(s) ==
            Ret(s, Less64(FromInt(ProtocolMaxMsgSize \div 24), s.f.parentsNum),
                ErrTooLargeAlloc)
        PrevEpochHashExists(s) == Rd(s, <<Field("prevEpochHashExists", Bool)>>)
        Flags(s) ==
            Rd(s, (IF s.f.prevEpochHashExists[1] = 1
                   THEN <<Field("prevEpochHash", Hash)>> ELSE <<>>)
                  \o <<Field("anyTxs", Bool)>>
                  \o (IF s.f.version[1] > 0
                      THEN <<Field("anyMisbehaviourProofs", Bool),
                             Field("anyEpochVote", Bool),
                             Field("anyBlockVotes", Bool)>>
                      ELSE <<>>))
        NotEmpty(s) ==
            Ret(s, s.f.payloadHash = EmptyPayloadHash(s.f.version[1]),
                ErrNonCanonicalEncoding)
        PayloadHash(s) ==
            IF \/ s.f.anyTxs[1] = 1
               \/ s.f.anyMisbehaviourProofs[1] = 1
               \/ s.f.anyEpochVote[1] = 1
               \/ s.f.anyBlockVotes[1] = 1
            THEN NotEmpty(Rd(s, <<Field("payloadHash", Hash)>>))
            ELSE Let(s, "payloadHash", EmptyPayloadHash(s.f.version[1]))
        Extra(s) ==
            Rd(s, <<Field("extra", Op("SliceBytes", <<>>, ProtocolMaxMsgSize))>>)
        Epoch(s) ==
            Ret(s, s.f.version[1] = 0 /\ Less64(s.f.epoch, FromInt(256)),
                ErrTooLowEpoch)
    IN Epoch(Extra(PayloadHash(Flags(PrevEpochHashExists(
           ReadParents(ParentsNum(Fields(Version(ReadVersion(
               [r |-> r, f |-> HeaderLocals, err |-> "nil",
                panic |-> NoPanic])))), 0))))))

\* the setters without the one of the payload hash
Populate_HashNotSet(e, f) ==
    [e EXCEPT !.version = f.version[1], !.netForkID = f.netForkID,
              !.epoch = f.epoch, !.lamport = f.lamport,
              !.creator = f.creator, !.seq = f.seq, !.frame = f.frame,
              !.creationTime = f.creationTime,
              !.medianTime = Sub64(f.creationTime, f.medianTimeDiff),
              !.gasPowerUsed = f.gasPowerUsed,
              !.gasPowerLeft = <<f.gasPowerLeft0, f.gasPowerLeft1>>,
              !.parents = f.parents, !.prevEpochHash = f.prevEpochHash,
              !.anyTxs = (f.anyTxs[1] = 1),
              !.anyBlockVotes = (f.anyBlockVotes[1] = 1),
              !.anyEpochVote = (f.anyEpochVote[1] = 1),
              !.anyMisbehaviourProofs = (f.anyMisbehaviourProofs[1] = 1),
              !.extra = f.extra]

\* e.SetVersion(version) ... e.SetExtra(extra)
Populate(e, f) ==
    [e EXCEPT !.version = f.version[1], !.netForkID = f.netForkID,
              !.epoch = f.epoch, !.lamport = f.lamport,
              !.creator = f.creator, !.seq = f.seq, !.frame = f.frame,
              !.creationTime = f.creationTime,
              !.medianTime = Sub64(f.creationTime, f.medianTimeDiff),
              !.gasPowerUsed = f.gasPowerUsed,
              !.gasPowerLeft = <<f.gasPowerLeft0, f.gasPowerLeft1>>,
              !.parents = f.parents, !.prevEpochHash = f.prevEpochHash,
              !.anyTxs = (f.anyTxs[1] = 1),
              !.anyBlockVotes = (f.anyBlockVotes[1] = 1),
              !.anyEpochVote = (f.anyEpochVote[1] = 1),
              !.anyMisbehaviourProofs = (f.anyMisbehaviourProofs[1] = 1),
              !.payloadHash = f.payloadHash, !.extra = f.extra]

\* eventUnmarshalCSER(r, e): [r, e, err, panic], e as the call leaves it
eventUnmarshalCSER(r, e) ==
    LET Set(s) ==
            [r |-> s.r, e |-> IF Running(s) THEN Populate(e, s.f) ELSE e,
             err |-> s.err, panic |-> s.panic]
    IN Set(eventUnmarshalCSER_Reads(r))

----------------------------------------------------------------------------
(* inter: the votes and the transactions.  A transaction is a record of    *)
(* the fields of its inner type; a big.Int is its magnitude, To is <<>>    *)
(* when nil, an address is its 20 bytes.                                   *)

\* (bvs LlrBlockVotes) MarshalCSER
RECURSIVE FixedBytesOps(_, _, _)
FixedBytesOps(list, n, i) ==
    IF i > Len(list) THEN <<>>
    ELSE <<Op("FixedBytes", list[i], n)>> \o FixedBytesOps(list, n, i + 1)

LlrBlockVotesMarshalCSER(bvs) ==
    <<Op("U64", bvs.Start, 0), Op("U32", Trunc(bvs.Epoch, 4), 0),
      Op("U32", FromInt(Len(bvs.Votes)), 0)>>
    \o FixedBytesOps(bvs.Votes, 32, 1)

\* reads n times FixedBytes(size) into s.f[name]
RECURSIVE ReadList(_, _, _, _, _)
ReadList(s, name, item, size, n) ==
    IF ~Running(s) \/ ~Less64(FromInt(Len(s.f[name])), n) THEN s
    ELSE LET Add(s1) == Let(s1, name, Append(s1.f[name], s1.f[item]))
         IN ReadList(Add(Rd(s, <<Field(item, Op("FixedBytes", <<>>, size))>>)),
                     name, item, size, n)

\* (bvs *LlrBlockVotes) UnmarshalCSER: [r, f, err, panic], f the decoded votes
LlrBlockVotesUnmarshalCSER(r) ==
    LET Num(s) ==
            Ret(s, Less64(FromInt(ProtocolMaxMsgSize \div 32), s.f.num),
                ErrTooLargeAlloc)
        Records(s) == ReadList(s, "records", "record", 32, s.f.num)
    IN Records(Num(Rd(
           [r |-> r, err |-> "nil", panic |-> NoPanic,
            f |-> [start |-> Zero8, epoch |-> Zero8, num |-> Zero8,
                   record |-> <<>>, records |-> <<>>]],
           <<Field("start", Op("U64", <<>>, 0)),
             Field("epoch", Op("U32", <<>>, 0)),
             Field("num", Op("U32", <<>>, 0))>>)))

\* (ers LlrEpochVote) MarshalCSER
LlrEpochVoteMarshalCSER(ers) ==
    <<Op("U32", Trunc(ers.Epoch, 4), 0), Op("FixedBytes", ers.Vote, 32)>>

\* (ers *LlrEpochVote) UnmarshalCSER
LlrEpochVoteUnmarshalCSER(r) ==
    Rd([r |-> r, err |-> "nil", panic |-> NoPanic,
        f |-> [epoch |-> Zero8, record |-> Zeros(32)]],
       <<Field("epoch", Op("U32", <<>>, 0)),
         Field("record", Op("FixedBytes", <<>>, 32))>>)

ErrUnknownTxType == "ErrUnknownTxType"
ErrLegacyGasLimit == "cannot serialize legacy tx with gasLimit <= 256"

LegacyTxType == 0
AccessListTxType == 1
DynamicFeeTxType == 2

PaddedBytes(b, n) == IF Len(b) >= n THEN b ELSE Zeros(n - Len(b)) \o b

encodeSig(r, s) ==
    SubSeq(PaddedBytes(r, 32), 1, 32) \o SubSeq(PaddedBytes(s, 32), 1, 32)

RECURSIVE AccessListWrites(_, _)
AccessListWrites(al, i) ==
    IF i > Len(al) THEN <<>>
    ELSE <<Op("FixedBytes", al[i].Address, 20),
           Op("U32", FromInt(Len(al[i].StorageKeys)), 0)>>
         \o FixedBytesOps(al[i].StorageKeys, 32, 1)
         \o AccessListWrites(al, i + 1)

\* the writes of TransactionMarshalCSER, in order
TransactionMarshalCSER(tx) ==
    (IF tx.Type \notin {LegacyTxType, AccessListTxType, DynamicFeeTxType}
     THEN <<Op("Return", ErrUnknownTxType, 0)>> ELSE <<>>)
    \o (IF tx.Type # LegacyTxType
        THEN <<Op("Bits", <<0>>, 6), Op("U8", <<tx.Type>>, 0)>>
        ELSE IF ~Less64(FromInt(255), tx.Gas)
        THEN <<Op("Return", ErrLegacyGasLimit, 0)>>
        ELSE <<>>)
    \o <<Op("U64", tx.Nonce, 0), Op("U64", tx.Gas, 0)>>
    \o (IF tx.Type = DynamicFeeTxType
        THEN <<Op("BigInt", tx.GasTipCap, 0), Op("BigInt", tx.GasFeeCap, 0)>>
        ELSE <<Op("BigInt", tx.GasPrice, 0)>>)
    \o <<Op("BigInt", tx.Value, 0), BoolOp(tx.To # <<>>)>>
    \o (IF tx.To # <<>> THEN <<Op("FixedBytes", tx.To, 20)>> ELSE <<>>)
    \o <<Op("SliceBytes", tx.Data, ProtocolMaxMsgSize),
         Op("BigInt", tx.V, 0),
         Op("FixedBytes", encodeSig(tx.R, tx.S), 64)>>
    \o (IF tx.Type \in {AccessListTxType, DynamicFeeTxType}
        THEN <<Op("BigInt", tx.ChainID, 0),
               Op("U32", FromInt(Len(tx.AccessList)), 0)>>
             \o AccessListWrites(tx.AccessList, 1)
        ELSE <<>>)

\* MarshalTxsCSER
RECURSIVE TxsWrites(_, _)
TxsWrites(txs, i) ==
    IF i > Len(txs) THEN <<>>
    ELSE TransactionMarshalCSER(txs[i]) \o TxsWrites(txs, i + 1)

MarshalTxsCSER(txs) == <<Op("U56", FromInt(Len(txs)), 0)>> \o TxsWrites(txs, 1)

\* the fields a transaction type does not have
NoTx ==
    [Type |-> LegacyTxType, Nonce |-> Zero8, Gas |-> Zero8, GasPrice |-> <<>>,
     GasTipCap |-> <<>>, GasFeeCap |-> <<>>, Value |-> <<>>, To |-> <<>>,
     Data |-> <<>>, V |-> <<>>, R |-> <<>>, S |-> <<>>, ChainID |-> <<>>,
     AccessList |-> <<>>]

\* the loop of TransactionUnmarshalCSER over the access list
RECURSIVE ReadAccessList(_)
ReadAccessList(s) ==
    IF ~Running(s) \/ ~Less64(FromInt(Len(s.f.accessList)), s.f.accessListLen)
    THEN s
    ELSE LET KeysLen(s1) ==
                 Let(Ret(s1, Less64(FromInt(ProtocolMaxMsgSize \div 32),
                                    s1.f.keysLen), ErrTooLargeAlloc),
                     "keys", <<>>)
             Keys(s2) == ReadList(s2, "keys", "key", 32, s2.f.keysLen)
             Add(s3) ==
                 Let(s3, "accessList",
                     Append(s3.f.accessList,
                            [Address |-> s3.f.address,
                             StorageKeys |-> s3.f.keys]))
         IN ReadAccessList(Add(Keys(KeysLen(Rd(
                s, <<Field("address", Op("FixedBytes", <<>>, 20)),
                     Field("keysLen", Op("U32", <<>>, 0))>>)))))

\* TransactionUnmarshalCSER: [r, f, err, panic], the transaction in f.tx
TransactionUnmarshalCSER(r) ==
    LET U64 == Op("U64", <<>>, 0)
        BigInt == Op("BigInt", <<>>, 0)
        s0 == [r |-> r, err |-> "nil", panic |-> NoPanic,
               f |-> [txType |-> <<LegacyTxType>>, nonce |-> Zero8,
                      gasLimit |-> Zero8, gasPrice |-> <<>>,
                      gasTipCap |-> <<>>, gasFeeCap |-> <<>>,
                      amount |-> <<>>, toExists |-> <<0>>, to |-> <<>>,
                      data |-> <<>>, v |-> <<>>, sig |-> Zeros(64),
                      chainID |-> <<>>, accessListLen |-> Zero8,
                      address |-> <<>>, keysLen |-> Zero8, key |-> <<>>,
                      keys |-> <<>>, accessList |-> <<>>, tx |-> NoTx]]
        \* 1. the type
        Type(view) ==
            IF view.panic THEN [s0 EXCEPT !.panic = RuntimePanic]
            ELSE IF view.v = 0
            THEN Rd([s0 EXCEPT !.r.BitsR = BitsRead(@, 6).a],
                    <<Field("txType", Op("U8", <<>>, 0))>>)
            ELSE s0
        \* 2. to 4. common fields, fees, value, recipient flag
        Common(s) ==
            Rd(s, <<Field("nonce", U64), Field("gasLimit", U64)>>
                  \o (IF s.f.txType[1] = DynamicFeeTxType
                      THEN <<Field("gasTipCap", BigInt),
                             Field("gasFeeCap", BigInt)>>
                      ELSE <<Field("gasPrice", BigInt)>>)
                  \o <<Field("amount", BigInt),
                       Field("toExists", Op("Bool", <<>>, 0))>>)
        \* 4. and 5. recipient, data, signature
        Data(s) ==
            Rd(s, (IF s.f.toExists[1] = 1
                   THEN <<Field("to", Op("FixedBytes", <<>>, 20))>>
                   ELSE <<>>)
                  \o <<Field("data", Op("SliceBytes", <<>>, ProtocolMaxMsgSize)),
                       Field("v", BigInt),
                       Field("sig", Op("FixedBytes", <<>>, 64))>>)
        \* 7. the fields of a typed transaction
        AccessListLen(s) ==
            Ret(s, Less64(FromInt(ProtocolMaxMsgSize \div 24),
                          s.f.accessListLen), ErrTooLargeAlloc)
        Typed(s) ==
            IF s.f.txType[1] = LegacyTxType THEN s
            ELSE IF s.f.txType[1] \in {AccessListTxType, DynamicFeeTxType}
            THEN ReadAccessList(AccessListLen(Rd(
                     s, <<Field("chainID", BigInt),
                          Field("accessListLen", Op("U32", <<>>, 0))>>)))
            ELSE Ret(s, TRUE, ErrUnknownTxType)
        \* 6. and 8. types.NewTx
        NewTx(s) ==
            Let(s, "tx",
                [Type |-> s.f.txType[1], Nonce |-> s.f.nonce,
                 Gas |-> s.f.gasLimit,
                 GasPrice |-> IF s.f.txType[1] = DynamicFeeTxType
                              THEN <<>> ELSE s.f.gasPrice,
                 GasTipCap |-> s.f.gasTipCap, GasFeeCap |-> s.f.gasFeeCap,
                 Value |-> s.f.amount, To |-> s.f.to, Data |-> s.f.data,
                 V |-> s.f.v,
                 R |-> SetBytes(SubSeq(s.f.sig, 1, 32)),
                 S |-> SetBytes(SubSeq(s.f.sig, 33, 64)),
                 ChainID |-> s.f.chainID, AccessList |-> s.f.accessList])
    IN NewTx(Typed(Data(Common(Type(BitsView(r.BitsR, 6))))))

----------------------------------------------------------------------------
(* inter/event_serializer.go: the event payload (header, signature, body). *)
(* Transactions of a version-0 event are transaction records; the lists    *)
(* that travel in RLP (transactions of later versions, misbehaviour        *)
(* proofs) are kept as the RLP encoding of their items.                    *)

ErrRlp == "rlp error"

\* rlp.EncodeToBytes of a list whose encoded items are given
rlpEncodeToBytes(items) ==
    IF Len(items) < 56 THEN <<192 + Len(items)>> \o items
    ELSE <<248, Len(items)>> \o items

\* rlp.DecodeBytes into a list: [err, v], v the encoded items
rlpDecodeBytes(b) ==
    IF b # <<>> /\ b[1] >= 192 /\ b[1] < 248 /\ Len(b) = 1 + (b[1] - 192)
    THEN [err |-> "nil", v |-> Tail(b)]
    ELSE IF Len(b) >= 2 /\ b[1] = 248 /\ b[2] >= 56 /\ Len(b) = 2 + b[2]
    THEN [err |-> "nil", v |-> SubSeq(b, 3, Len(b))]
    ELSE [err |-> ErrRlp, v |-> <<>>]

\* the writes of (e *EventPayload) MarshalCSER, in order
EventPayloadMarshalCSER(e) ==
    (IF e.anyTxs # (Len(e.txs) # 0)
     THEN <<Op("Return", ErrSerMalformedEvent, 0)>> ELSE <<>>)
    \o (IF e.anyMisbehaviourProofs # (Len(e.misbehaviourProofs) # 0)
        THEN <<Op("Return", ErrSerMalformedEvent, 0)>> ELSE <<>>)
    \o EventMarshalCSER(e)
    \o <<Op("FixedBytes", e.sig, SigSize)>>
    \o (IF e.anyTxs
        THEN IF e.version = 0 THEN MarshalTxsCSER(e.txs)
             ELSE <<Op("SliceBytes", rlpEncodeToBytes(e.txs),
                       ProtocolMaxMsgSize)>>
        ELSE <<>>)
    \o (IF e.anyMisbehaviourProofs
        THEN <<Op("SliceBytes", rlpEncodeToBytes(e.misbehaviourProofs),
                  ProtocolMaxMsgSize)>>
        ELSE <<>>)
    \o (IF e.anyEpochVote THEN LlrEpochVoteMarshalCSER(e.epochVote) ELSE <<>>)
    \o (IF e.anyBlockVotes THEN LlrBlockVotesMarshalCSER(e.blockVotes)
        ELSE <<>>)

\* (e *EventPayload) MarshalBinary
EventPayloadMarshalBinary(e) == MarshalBinaryAdapter(EventPayloadMarshalCSER(e))

\* the legacy loop of MutableEventPayload.UnmarshalCSER over the transactions
RECURSIVE ReadTxs(_)
ReadTxs(s) ==
    IF ~Running(s) \/ ~Less64(FromInt(Len(s.f.txs)), s.f.size) THEN s
    ELSE LET Add(t) ==
                 [s EXCEPT !.r = t.r, !.err = t.err, !.panic = t.panic,
                           !.f.txs = IF Running(t) THEN Append(@, t.f.tx)
                                     ELSE @]
         IN ReadTxs(Add(TransactionUnmarshalCSER(s.r)))

\* b := r.SliceBytes(ProtocolMaxMsgSize); err := rlp.DecodeBytes(b, &list)
ReadRlpList(s, name) ==
    LET Set(s1, d) ==
            IF ~Running(s1) THEN s1
            ELSE IF d.err # "nil" THEN [s1 EXCEPT !.err = d.err]
            ELSE [s1 EXCEPT !.f[name] = d.v]
        Decode(s1) == Set(s1, rlpDecodeBytes(s1.f.b))
    IN Decode(Rd(s, <<Field("b", Op("SliceBytes", <<>>, ProtocolMaxMsgSize))>>))

\* runs the nested decoder result t inside s
Sub(s, t) == [s EXCEPT !.r = t.r, !.err = t.err, !.panic = t.panic]

\* the decoder without the test of the number of block votes
MutableEventPayloadUnmarshalCSER_AnyCount(r, e) ==
    LET \* e.<field> = v
        Set(s, field, v) ==
            IF Running(s) THEN [s EXCEPT !.e[field] = v] ELSE s
        \* 1. header
        Header_(h) ==
            [r |-> h.r, err |-> h.err, panic |-> h.panic, e |-> h.e,
             f |-> [sig |-> <<>>, size |-> Zero8, b |-> <<>>, txs |-> <<>>,
                    mps |-> <<>>]]
        \* 2. signature
        SetSig(s) == Set(s, "sig", s.f.sig)
        Sig(s) == SetSig(Rd(s, <<Field("sig", Op("FixedBytes", <<>>, SigSize))>>))
        \* 3. transactions
        SetTxs(s) == Set(s, "txs", s.f.txs)
        Txs(s) ==
            SetTxs(IF ~Running(s) \/ ~s.e.anyTxs THEN s
                   ELSE IF s.e.version = 0
                   THEN ReadTxs(Rd(s, <<Field("size", Op("U56", <<>>, 0))>>))
                   ELSE ReadRlpList(s, "txs"))
        \* misbehaviour proofs
        SetMps(s) == Set(s, "misbehaviourProofs", s.f.mps)
        Mps(s) ==
            SetMps(IF ~Running(s) \/ ~s.e.anyMisbehaviourProofs THEN s
                   ELSE ReadRlpList(s, "mps"))
        \* epoch vote
        SetEpochVote(s, ev) ==
            Set(Ret(Sub(s, ev), ev.f.epoch = Zero8, ErrNonCanonicalEncoding),
                "epochVote", [Epoch |-> ev.f.epoch, Vote |-> ev.f.record])
        EpochVote(s) ==
            IF ~Running(s) THEN s
            ELSE IF s.e.anyEpochVote
            THEN SetEpochVote(s, LlrEpochVoteUnmarshalCSER(s.r))
            ELSE Set(s, "epochVote", [Epoch |-> Zero8, Vote |-> Zeros(32)])
        \* block votes
        SetBlockVotes(s, bvs) ==
            Set(Ret(Sub(s, bvs),
                    \/ bvs.f.start = Zero8
                    \/ bvs.f.epoch = Zero8,
                    ErrNonCanonicalEncoding),
                "blockVotes",
                [Start |-> bvs.f.start, Epoch |-> bvs.f.epoch,
                 Votes |-> bvs.f.records])
        BlockVotes(s) ==
            IF ~Running(s) THEN s
            ELSE IF s.e.anyBlockVotes
            THEN SetBlockVotes(s, LlrBlockVotesUnmarshalCSER(s.r))
            ELSE Set(s, "blockVotes",
                     [Start |-> Zero8, Epoch |-> Zero8, Votes |-> <<>>])
        Return(s) == [r |-> s.r, e |-> s.e, err |-> s.err, panic |-> s.panic]
    IN Return(BlockVotes(EpochVote(Mps(Txs(Sig(Header_(
           eventUnmarshalCSER(r, e))))))))

\* (e *MutableEventPayload) UnmarshalCSER(r): [r, e, err, panic], e as the
\* call leaves the receiver
MutableEventPayloadUnmarshalCSER(r, e) ==
    LET \* e.<field> = v
        Set(s, field, v) ==
            IF Running(s) THEN [s EXCEPT !.e[field] = v] ELSE s
        \* 1. header
        Header_(h) ==
            [r |-> h.r, err |-> h.err, panic |-> h.panic, e |-> h.e,
             f |-> [sig |-> <<>>, size |-> Zero8, b |-> <<>>, txs |-> <<>>,
                    mps |-> <<>>]]
        \* 2. signature
        SetSig(s) == Set(s, "sig", s.f.sig)
        Sig(s) == SetSig(Rd(s, <<Field("sig", Op("FixedBytes", <<>>, SigSize))>>))
        \* 3. transactions
        SetTxs(s) == Set(s, "txs", s.f.txs)
        Txs(s) ==
            SetTxs(IF ~Running(s) \/ ~s.e.anyTxs THEN s
                   ELSE IF s.e.version = 0
                   THEN ReadTxs(Rd(s, <<Field("size", Op("U56", <<>>, 0))>>))
                   ELSE ReadRlpList(s, "txs"))
        \* misbehaviour proofs
        SetMps(s) == Set(s, "misbehaviourProofs", s.f.mps)
        Mps(s) ==
            SetMps(IF ~Running(s) \/ ~s.e.anyMisbehaviourProofs THEN s
                   ELSE ReadRlpList(s, "mps"))
        \* epoch vote
        SetEpochVote(s, ev) ==
            Set(Ret(Sub(s, ev), ev.f.epoch = Zero8, ErrNonCanonicalEncoding),
                "epochVote", [Epoch |-> ev.f.epoch, Vote |-> ev.f.record])
        EpochVote(s) ==
            IF ~Running(s) THEN s
            ELSE IF s.e.anyEpochVote
            THEN SetEpochVote(s, LlrEpochVoteUnmarshalCSER(s.r))
            ELSE Set(s, "epochVote", [Epoch |-> Zero8, Vote |-> Zeros(32)])
        \* block votes
        SetBlockVotes(s, bvs) ==
            Set(Ret(Sub(s, bvs),
                    \/ Len(bvs.f.records) = 0
                    \/ bvs.f.start = Zero8
                    \/ bvs.f.epoch = Zero8,
                    ErrNonCanonicalEncoding),
                "blockVotes",
                [Start |-> bvs.f.start, Epoch |-> bvs.f.epoch,
                 Votes |-> bvs.f.records])
        BlockVotes(s) ==
            IF ~Running(s) THEN s
            ELSE IF s.e.anyBlockVotes
            THEN SetBlockVotes(s, LlrBlockVotesUnmarshalCSER(s.r))
            ELSE Set(s, "blockVotes",
                     [Start |-> Zero8, Epoch |-> Zero8, Votes |-> <<>>])
        Return(s) == [r |-> s.r, e |-> s.e, err |-> s.err, panic |-> s.panic]
    IN Return(BlockVotes(EpochVote(Mps(Txs(Sig(Header_(
           eventUnmarshalCSER(r, e))))))))

\* the bodyReader UnmarshalBinaryAdapter hands to the closure
BodyReader(in) ==
    LET Streams(s) ==
            [BitsR |-> NewBitsReader(s.bbits),
             BytesR |-> NewFastReader(s.bbytes.arr, s.bbytes.len)]
    IN Streams(binaryToCSER(in))

\* UnmarshalBinaryAdapter(raw, unmarshalCser) as one call, c being what
\* unmarshalCser(bodyReader) returns: [err, ran], ran whether the closure
\* was called
UnmarshalBinaryAdapter(in, c) ==
    LET Split(s) ==
            IF s.panic # NoPanic
            THEN [err |-> Recover(s.panic), ran |-> FALSE]
            ELSE IF s.err # "nil"
            THEN [err |-> s.err, ran |-> FALSE]
            ELSE IF c.panic # NoPanic
            THEN [err |-> Recover(c.panic), ran |-> TRUE]
            ELSE IF c.err # "nil"
            THEN [err |-> c.err, ran |-> TRUE]
            ELSE [err |-> TrailingChecks(c.r), ran |-> TRUE]
    IN Split(binaryToCSER(in))

\* (e *MutableEventPayload) UnmarshalBinary(raw): [err, e]
MutableEventPayloadUnmarshalBinary(e, in) ==
    LET Returned(c, u) == [err |-> u.err, e |-> IF u.ran THEN c.e ELSE e]
        Closure(c) == Returned(c, UnmarshalBinaryAdapter(in, c))
    IN Closure(MutableEventPayloadUnmarshalCSER(BodyReader(in), e))

\* (e *EventPayload) UnmarshalBinary(raw): [err, e].  The EventPayload built
\* on success is mutE with its size; its cached hashes are functions of
\* mutE and are left out.
EventPayloadUnmarshalBinary(e, in) ==
    LET Build(mutE) ==
            IF mutE.err # "nil" THEN [err |-> mutE.err, e |-> e]
            ELSE [err |-> "nil",
                  e |-> [n \in DOMAIN mutE.e \cup {"size"} |->
                            IF n = "size" THEN in.len ELSE mutE.e[n]]]
    IN Build(MutableEventPayloadUnmarshalBinary(ZeroEvent, in))

----------------------------------------------------------------------------
(* Events handed to the codecs                                             *)

\* most parents of an event
MaxParents == 2
\* most transactions and most block votes of a payload
MaxParts == 1

Max32 == <<255, 255, 255, 255, 0, 0, 0, 0>>

Hash32(b) == [i \in 1..32 |-> b]

\* the i-th parent of an event: same epoch, lamport lower by back
Parent(epoch, lamport, back, i) ==
    ParentID(epoch, Sub32(lamport, FromInt(back)), [j \in 1..24 |-> i])

\* the content flags as <<txs, mps, epoch vote, block votes>>
FlagSets ==
    {<<FALSE, FALSE, FALSE, FALSE>>, <<TRUE, FALSE, FALSE, FALSE>>,
     <<FALSE, FALSE, TRUE, FALSE>>, <<FALSE, TRUE, FALSE, TRUE>>,
     <<TRUE, TRUE, TRUE, TRUE>>}

Header(v, nf, ep, lam, times, ps, peh, fl, ph, x) ==
    [ZeroEvent EXCEPT
        !.version = v, !.netForkID = nf, !.epoch = ep, !.lamport = lam,
        !.creator = FromInt(1), !.seq = Max32, !.frame = FromInt(256),
        !.creationTime = times[1], !.medianTime = times[2],
        !.gasPowerUsed = Max64, !.gasPowerLeft = <<Zero8, MaxU56>>,
        !.parents = ps, !.prevEpochHash = peh,
        !.anyTxs = fl[1], !.anyMisbehaviourProofs = fl[2],
        !.anyEpochVote = fl[3], !.anyBlockVotes = fl[4],
        !.payloadHash = ph, !.extra = x]

ParentLists(ep, lam) ==
    {[i \in 1..n |-> Parent(ep, lam, i - 1, i)] : n \in 0..MaxParents}
    \cup {<<ParentID(ep, Max32, Hash32(9))>>}

Headers ==
    {Header(v, nf, ep, FromInt(1000), times, ps,
            IF opt THEN Hash32(3) ELSE <<>>, fl,
            IF empty THEN EmptyPayloadHash(v) ELSE Hash32(8),
            IF opt THEN <<7>> ELSE <<>>) :
        v \in {0, 1, 2}, nf \in {Zero8, FromInt(513)},
        ep \in {FromInt(255), FromInt(256), Max32},
        times \in {<<Zero8, Max64>>, <<Zero8, MinInt64>>,
                   <<MaxInt64, Max64>>},
        ps \in ParentLists(FromInt(256), FromInt(1000)),
        opt \in BOOLEAN, fl \in FlagSets, empty \in BOOLEAN}

InitHeader ==
    /\ event \in Headers
    /\ target = ZeroEvent
    /\ call = ""
    /\ pc = "marshal"
    /\ input = "intact"
    /\ prog = <<>> /\ rprog = <<>>
    /\ blob = <<>> /\ merr = "nil" /\ raw = NoRaw /\ reader = NoReader
    /\ vals = <<>> /\ err = "pending" /\ lastRead = NoRead /\ blob2 = <<>>
    /\ writer = NewWriter /\ NoVotesNoBits

\* (e *Event) MarshalBinary on the event
EncodeHeader ==
    /\ pc = "marshal"
    /\ LET Returned(m) ==
               /\ m.panic = NoPanic
               /\ writer' = m.w
               /\ blob' = m.out
               /\ merr' = m.err
               /\ pc' = IF m.err = "nil" THEN "packed" ELSE "done"
       IN Returned(EventMarshalBinary(event))
    /\ UNCHANGED <<input, prog, rprog, raw, reader, vals, err, lastRead, blob2>>
    /\ UNCHANGED <<evars, svars>>

\* UnmarshalBinaryAdapter over eventUnmarshalCSER(r, target)
DecodeHeader ==
    /\ pc = "ready"
    /\ LET Returned(c, u) ==
               /\ err' = u.err
               /\ target' = IF u.ran THEN c.e ELSE target
           Closure(c) == Returned(c, UnmarshalBinaryAdapter(raw, c))
       IN Closure(eventUnmarshalCSER(BodyReader(raw), target))
    /\ call' = "eventUnmarshalCSER"
    /\ pc' = "done"
    /\ UNCHANGED <<input, prog, rprog, blob, merr, raw, reader, vals,
                   lastRead, blob2, event>>
    /\ UNCHANGED <<svars, writer>>

NextHeader == EncodeHeader \/ Deliver \/ DecodeHeader

SpecHeader == InitHeader /\ [][NextHeader]_vars

\* a legacy transaction the encoder accepts (gas above 255)
LegacyTx(i) ==
    [NoTx EXCEPT !.Nonce = FromInt(i), !.Gas = FromInt(256),
                 !.GasPrice = <<1, 0>>, !.Value = <<255>>,
                 !.Data = <<i>>, !.V = <<27>>, !.R = <<1>>, !.S = <<2>>]

Payload(v, ep, fl, consistent) ==
    LET any == fl[1] \/ fl[2] \/ fl[3] \/ fl[4]
        h == Header(v, Zero8, ep, FromInt(1000), <<FromInt(5), FromInt(9)>>,
                    <<Parent(ep, FromInt(1000), 1, 1)>>, <<>>, fl,
                    IF any THEN Hash32(8) ELSE EmptyPayloadHash(v), <<7>>)
    IN [h EXCEPT
          !.sig = [i \in 1..SigSize |-> 255],
          !.txs = IF fl[1] = consistent
                  THEN IF v = 0 THEN [i \in 1..MaxParts |-> LegacyTx(i)]
                       ELSE <<1>>
                  ELSE <<>>,
          !.misbehaviourProofs = IF fl[2] THEN <<2>> ELSE <<>>,
          !.epochVote = IF fl[3]
                        THEN [Epoch |-> FromInt(5), Vote |-> Hash32(4)]
                        ELSE @,
          !.blockVotes = IF fl[4]
                         THEN [Start |-> FromInt(1), Epoch |-> FromInt(5),
                               Votes |-> [i \in 1..MaxParts |-> Hash32(6)]]
                         ELSE @]

Payloads ==
    {Payload(v, FromInt(256), fl, c) :
        v \in {0, 1}, fl \in FlagSets, c \in BOOLEAN}

\* an event the caller's structure holds from an earlier decode
PriorEvent == Payload(1, FromInt(300), <<FALSE, FALSE, TRUE, FALSE>>, TRUE)

InitPayload ==
    /\ event \in Payloads
    /\ target \in {ZeroEvent, PriorEvent}
    /\ call = ""
    /\ pc = "marshal"
    /\ input = "intact"
    /\ prog = <<>> /\ rprog = <<>>
    /\ blob = <<>> /\ merr = "nil" /\ raw = NoRaw /\ reader = NoReader
    /\ vals = <<>> /\ err = "pending" /\ lastRead = NoRead /\ blob2 = <<>>
    /\ writer = NewWriter /\ NoVotesNoBits

\* (e *EventPayload) MarshalBinary on the event
EncodePayload ==
    /\ pc = "marshal"
    /\ LET Returned(m) ==
               /\ m.panic = NoPanic
               /\ writer' = m.w
               /\ blob' = m.out
               /\ merr' = m.err
               /\ pc' = IF m.err = "nil" THEN "packed" ELSE "done"
       IN Returned(EventPayloadMarshalBinary(event))
    /\ UNCHANGED <<input, prog, rprog, raw, reader, vals, err, lastRead, blob2>>
    /\ UNCHANGED <<evars, svars>>

\* target.UnmarshalBinary(raw), target a *MutableEventPayload
DecodeMutableEventPayload ==
    /\ pc = "ready"
    /\ LET Returned(u) == err' = u.err /\ target' = u.e
       IN Returned(MutableEventPayloadUnmarshalBinary(target, raw))
    /\ call' = "MutableEventPayload.UnmarshalBinary"
    /\ pc' = "done"
    /\ UNCHANGED <<input, prog, rprog, blob, merr, raw, reader, vals,
                   lastRead, blob2, event>>
    /\ UNCHANGED <<svars, writer>>

\* target.UnmarshalBinary(raw), target an *EventPayload
DecodeEventPayload ==
    /\ pc = "ready"
    /\ LET Returned(u) == err' = u.err /\ target' = u.e
       IN Returned(EventPayloadUnmarshalBinary(target, raw))
    /\ call' = "EventPayload.UnmarshalBinary"
    /\ pc' = "done"
    /\ UNCHANGED <<input, prog, rprog, blob, merr, raw, reader, vals,
                   lastRead, blob2, event>>
    /\ UNCHANGED <<svars, writer>>

\* the blob is the encoding of the whole payload or of its header alone,
\* delivered as it is, cut short or followed by a zero byte
NextPayload ==
    \/ EncodePayload \/ EncodeHeader \/ Deliver \/ Truncate \/ AppendZero
    \/ DecodeMutableEventPayload \/ DecodeEventPayload

SpecPayload == InitPayload /\ [][NextPayload]_vars

----------------------------------------------------------------------------
(* Signed vote packs and the payload hash                                  *)

\* sha256 over data, as a digest no two inputs share: the input between
\* two marks
Sha256(data) == <<-1>> \o data \o <<-2>>

\* hash.Of(a, b): the digest of the concatenation
hashOf(a, b) == Sha256(a \o b)

\* idx.Block.Bytes(): the 64-bit index, big-endian
BigEndian64(d) == [i \in 1..8 |-> d[9 - i]]

\* the votes of a pack one after the other
RECURSIVE VotesBytes(_)
VotesBytes(votes) ==
    IF votes = <<>> THEN <<>> ELSE votes[1] \o VotesBytes(Tail(votes))

\* (ers LlrEpochVote) Hash
LlrEpochVoteHash(ers) == Sha256(BigEndian32(ers.Epoch) \o ers.Vote)

\* (bvs LlrBlockVotes) Hash
LlrBlockVotesHash(bvs) ==
    Sha256(BigEndian64(bvs.Start) \o BigEndian32(bvs.Epoch)
           \o BigEndian32(FromInt(Len(bvs.Votes))) \o VotesBytes(bvs.Votes))

\* the canonical hash of the transactions and of the misbehaviour proofs
CalcTxHash(txs) == Sha256(<<-3>> \o txs)
CalcMisbehaviourProofsHash(mps) == Sha256(<<-4>> \o mps)

\* the payload hash of the whole event
CalcPayloadHash(e) ==
    hashOf(hashOf(CalcTxHash(e.txs),
                  CalcMisbehaviourProofsHash(e.misbehaviourProofs)),
           hashOf(LlrEpochVoteHash(e.epochVote),
                  LlrBlockVotesHash(e.blockVotes)))

\* the signed locator of the event, as far as the packs use it
AsSignedEventLocator(e) ==
    [Locator |-> [PayloadHash |-> e.payloadHash], Sig |-> e.sig]

\* AsSignedBlockVotes(e)
AsSignedBlockVotes(e) ==
    [Signed |-> AsSignedEventLocator(e),
     TxsAndMisbehaviourProofsHash |->
         hashOf(CalcTxHash(e.txs),
                CalcMisbehaviourProofsHash(e.misbehaviourProofs)),
     EpochVoteHash |-> LlrEpochVoteHash(e.epochVote),
     Val |-> e.blockVotes]

\* AsSignedEpochVote(e)
AsSignedEpochVote(e) ==
    [Signed |-> AsSignedEventLocator(e),
     TxsAndMisbehaviourProofsHash |->
         hashOf(CalcTxHash(e.txs),
                CalcMisbehaviourProofsHash(e.misbehaviourProofs)),
     BlockVotesHash |-> LlrBlockVotesHash(e.blockVotes),
     Val |-> e.epochVote]

\* (bvs LlrSignedBlockVotes) CalcPayloadHash
LlrSignedBlockVotesCalcPayloadHash(bvs) ==
    hashOf(bvs.TxsAndMisbehaviourProofsHash,
           hashOf(bvs.EpochVoteHash, LlrBlockVotesHash(bvs.Val)))

\* the votes sub-hash with the block votes hash first
LlrSignedEpochVoteCalcPayloadHash_Swapped(ev) ==
    hashOf(ev.TxsAndMisbehaviourProofsHash,
           hashOf(ev.BlockVotesHash, LlrEpochVoteHash(ev.Val)))

\* (ev LlrSignedEpochVote) CalcPayloadHash
LlrSignedEpochVoteCalcPayloadHash(ev) ==
    hashOf(ev.TxsAndMisbehaviourProofsHash,
           hashOf(LlrEpochVoteHash(ev.Val), ev.BlockVotesHash))

\* the largest number of block votes of an event
MaxVotes == 2

\* an event of version 1 with its parts, under the payload hash of the parts
VoteEvent(txs, mps, ev, bvs) ==
    LET Sealed(e) == [e EXCEPT !.payloadHash = CalcPayloadHash(e)]
    IN Sealed([Payload(1, FromInt(256), <<FALSE, FALSE, FALSE, FALSE>>, TRUE)
                  EXCEPT !.anyTxs = txs # <<>>,
                         !.anyMisbehaviourProofs = mps # <<>>,
                         !.anyEpochVote = ev.Epoch # Zero8,
                         !.anyBlockVotes = bvs.Votes # <<>>,
                         !.txs = txs, !.misbehaviourProofs = mps,
                         !.epochVote = ev, !.blockVotes = bvs])

VoteEvents ==
    {VoteEvent(txs, mps, ev, bvs) :
        txs \in {<<>>, <<1>>, <<2>>}, mps \in {<<>>, <<1>>},
        ev \in {[Epoch |-> Zero8, Vote |-> Zeros(32)],
                [Epoch |-> FromInt(5), Vote |-> Hash32(4)],
                [Epoch |-> FromInt(1280), Vote |-> Hash32(6)]},
        bvs \in {[Start |-> Zero8, Epoch |-> Zero8, Votes |-> <<>>]}
                \cup {[Start |-> FromInt(st), Epoch |-> FromInt(5),
                       Votes |-> [i \in 1..n |-> Hash32(3 + i)]] :
                         st \in {1, 256}, n \in 1..MaxVotes}}

InitVotes ==
    /\ event \in VoteEvents
    /\ target = NoEvent /\ call = ""
    /\ pc = "event"
    /\ input = "intact"
    /\ prog = <<>> /\ rprog = <<>>
    /\ blob = <<>> /\ merr = "nil" /\ raw = NoRaw /\ reader = NoReader
    /\ vals = <<>> /\ err = "pending" /\ lastRead = NoRead /\ blob2 = <<>>
    /\ writer = NewWriter /\ NoVotesNoBits

\* pack := AsSignedBlockVotes(event)
ExtractBlockVotes ==
    /\ pc = "event"
    /\ pack' = AsSignedBlockVotes(event)
    /\ call' = "AsSignedBlockVotes"
    /\ pc' = "pack"
    /\ UNCHANGED <<input, prog, rprog, blob, merr, raw, reader, vals, err,
                   lastRead, blob2, event, target, writer, digest, bw, br>>

\* pack := AsSignedEpochVote(event)
ExtractEpochVote ==
    /\ pc = "event"
    /\ pack' = AsSignedEpochVote(event)
    /\ call' = "AsSignedEpochVote"
    /\ pc' = "pack"
    /\ UNCHANGED <<input, prog, rprog, blob, merr, raw, reader, vals, err,
                   lastRead, blob2, event, target, writer, digest, bw, br>>

\* digest := pack.CalcPayloadHash()
PackCalcPayloadHash ==
    /\ pc = "pack"
    /\ digest' = IF call = "AsSignedBlockVotes"
                 THEN LlrSignedBlockVotesCalcPayloadHash(pack)
                 ELSE LlrSignedEpochVoteCalcPayloadHash(pack)
    /\ pc' = "done"
    /\ UNCHANGED <<input, prog, rprog, blob, merr, raw, reader, vals, err,
                   lastRead, blob2, event, target, call, writer, pack, bw, br>>

NextVotes == ExtractBlockVotes \/ ExtractEpochVote \/ PackCalcPayloadHash

SpecVotes == InitVotes /\ [][NextVotes]_vars

----------------------------------------------------------------------------
(* Encoders: a transaction or a closure of primitive writes under          *)
(* MarshalBinaryAdapter, and TransactionUnmarshalCSER on the result        *)

Address(b) == [i \in 1..20 |-> b]

\* a transaction of the given type; a legacy transaction has no chain id
\* and no access list of its own
Tx(type, gas, value, to, al) ==
    [Type |-> type,
     Nonce |-> IF to = <<>> THEN Zero8 ELSE FromInt(300),
     Gas |-> gas,
     GasPrice |-> IF type = DynamicFeeTxType THEN <<>> ELSE <<1, 0>>,
     GasTipCap |-> IF type = DynamicFeeTxType THEN <<2>> ELSE <<>>,
     GasFeeCap |-> IF type = DynamicFeeTxType THEN <<3, 0>> ELSE <<>>,
     Value |-> value, To |-> to, Data |-> IF to = <<>> THEN <<7>> ELSE <<>>,
     V |-> <<27>>, R |-> [i \in 1..31 |-> 9], S |-> Hash32(255),
     ChainID |-> IF type = LegacyTxType THEN <<>> ELSE <<250>>,
     AccessList |-> IF type = LegacyTxType THEN <<>> ELSE al]

AccessLists ==
    {[i \in 1..n |-> [Address |-> Address(i),
                      StorageKeys |-> [j \in 1..(i - 1) |-> Hash32(j)]]] :
        n \in 0..(MaxParts + 1)}

TxInputs ==
    {Tx(type, gas, value, to, al) :
        \* the three supported types and a type beyond them
        type \in {LegacyTxType, AccessListTxType, DynamicFeeTxType,
                  DynamicFeeTxType + 1},
        gas \in {Zero8, FromInt(255), FromInt(256), Max64},
        value \in {<<>>, <<255>>, <<1, 0>>, <<-1, 5>>},
        to \in {<<>>, Address(4)},
        al \in AccessLists}

\* the writes of a closure that fails, or writes big integers of either sign
EOps ==
    {Op("Bool", <<0>>, 0), Op("U64", Max64, 0), Op("Fail", <<>>, 0)}
    \cup {Op("BigInt", v, 0) : v \in {<<>>, <<5>>, <<-1, 5>>}}

InitTx ==
    /\ \/ /\ input = "transaction"
          /\ event \in TxInputs
          /\ prog = TransactionMarshalCSER(event)
       \/ /\ input = "closure"
          /\ event = NoEvent
          /\ prog \in SeqsUpTo(EOps, MaxOps)
    /\ rprog = <<>>
    /\ target = NoEvent /\ call = ""
    /\ pc = "marshal"
    /\ blob = <<>> /\ merr = "nil" /\ raw = NoRaw /\ reader = NoReader
    /\ vals = <<>> /\ err = "pending" /\ lastRead = NoRead /\ blob2 = <<>>
    /\ writer = NewWriter /\ NoVotesNoBits

\* UnmarshalBinaryAdapter(raw, TransactionUnmarshalCSER): the transaction
\* returned is kept in target
DecodeTx ==
    /\ pc = "ready"
    /\ input = "transaction"
    /\ LET Returned(c, u) ==
               /\ err' = u.err
               /\ target' = IF u.err = "nil" THEN c.f.tx ELSE target
           Closure(c) == Returned(c, UnmarshalBinaryAdapter(raw, c))
       IN Closure(TransactionUnmarshalCSER(BodyReader(raw)))
    /\ call' = "TransactionUnmarshalCSER"
    /\ pc' = "done"
    /\ UNCHANGED <<input, prog, rprog, blob, merr, raw, reader, vals,
                   lastRead, blob2, event>>
    /\ UNCHANGED <<svars, writer>>

NextTx == Marshal \/ Deliver \/ DecodeTx

SpecTx == InitTx /\ [][NextTx]_vars

----------------------------------------------------------------------------
(* The primitive layer: one write of an integer or big integer behind a    *)
(* short prefix of other writes, and the matching reads                    *)

\* 256^(i-1) and 256^i - 1 as 64-bit values: the least and the greatest
\* value of i bytes
LeastOf(i) == [j \in 1..8 |-> IF j = i THEN 1 ELSE 0]
GreatestOf(i) == [j \in 1..8 |-> IF j <= i THEN 255 ELSE 0]

\* zero and the values at the edges of every byte count up to w bytes
EdgesUpTo(w) == {Zero8} \cup {LeastOf(i) : i \in 1..w} \cup {GreatestOf(i) : i \in 1..w}

\* the greatest magnitude Reader.BigInt accepts: 512 bytes
WideMagnitude == [i \in 1..512 |-> 255]

IOps ==
    {Op("U8", <<b>>, 0) : b \in {0, 1, 255}}
    \cup {Op("U16", v, 0) : v \in EdgesUpTo(2)}
    \cup {Op("U32", v, 0) : v \in EdgesUpTo(4)}
    \cup {Op("U64", v, 0) : v \in EdgesUpTo(8)}
    \cup {Op("VarUint", v, 0) : v \in EdgesUpTo(8)}
    \cup {Op("U56", v, 0) : v \in EdgesUpTo(7)}
    \cup {Op("I64", v, 0) :
            v \in {Zero8, FromInt(1), Max64, FromInt(256), Neg64(FromInt(256)),
                   MinInt64, MaxInt64, Neg64(MaxInt64)}}
    \cup {Op("BigInt", v, 0) :
            v \in {<<>>, <<5>>, <<-1, 5>>, <<1, 0>>, <<-1, 255, 255>>,
                   WideMagnitude, <<-1>> \o WideMagnitude,
                   <<1>> \o WideMagnitude}}

\* the writes before the one looked at: they move the cursor of the bit
\* stream off the byte boundary
PreOps == {Op("Bool", <<1>>, 0), Op("U32", LeastOf(3), 0)}

InitInt ==
    /\ \E pre \in SeqsUpTo(PreOps, MaxOps - 1) :
          \E op \in IOps : prog = Append(pre, op)
    /\ rprog = prog
    /\ pc = "marshal"
    /\ input = "intact"
    /\ blob = <<>> /\ merr = "nil" /\ raw = NoRaw /\ reader = NoReader
    /\ vals = <<>> /\ err = "pending" /\ lastRead = NoRead /\ blob2 = <<>>
    /\ event = NoEvent /\ target = NoEvent /\ call = ""
    /\ writer = NewWriter /\ NoVotesNoBits

SpecInt == InitInt /\ [][NextRT]_vars

----------------------------------------------------------------------------
(* utils/bits: words written by a Writer and read by a Reader over the     *)
(* same array, as testBitArray does                                        *)

\* the largest number of words written
MaxWords == 3

Word(n, v) == Op("Bits", <<v>>, n)

\* words that fit their width, inside a byte and across one to four byte
\* boundaries
FittingWords ==
    {Word(1, 0), Word(1, 1), Word(3, 5), Word(8, 255), Word(9, 257),
     Word(17, 65537), Word(24, 8421505), Word(32, 65)}

\* a word of no width, and words wider than their width; they are written
\* next to words of up to 24 bits, so that no 32 bits read reach 2^31
OtherWords == {Word(0, 255), Word(1, 3), Word(9, 1023)}

InitBits ==
    /\ prog \in SeqsUpTo(FittingWords, MaxWords)
                 \cup SeqsUpTo({w \in FittingWords : w.n <= 24} \cup OtherWords,
                               MaxWords)
    /\ rprog = <<>>
    /\ pc = IF prog = <<>> THEN "read" ELSE "write"
    /\ input = "intact"
    /\ blob = <<>> /\ merr = "nil" /\ raw = NoRaw /\ reader = NoReader
    /\ vals = <<>> /\ err = "pending" /\ lastRead = NoRead /\ blob2 = <<>>
    /\ event = NoEvent /\ target = NoEvent /\ call = ""
    /\ writer = NewWriter /\ NoVotesNoBits

\* writer.Write(w.bits, w.v) for the next word; the reader shares the array
WriteWord ==
    /\ pc = "write"
    /\ LET Written_(w, a) ==
               /\ bw' = a
               /\ br' = [br EXCEPT !.Bytes = a.Bytes]
               /\ rprog' = Append(rprog, w)
               /\ pc' = IF Len(rprog) + 1 = Len(prog) THEN "read" ELSE "write"
           Next_(w) == Written_(w, BitsWrite(bw, w.n, w.v[1]))
       IN Next_(prog[Len(rprog) + 1])
    /\ UNCHANGED <<input, prog, blob, merr, raw, reader, vals, err, lastRead,
                   blob2, event, target, call, writer, pack, digest>>

\* v := reader.Read(w.bits) for the next word
ReadWord ==
    /\ pc = "read"
    /\ Len(vals) < Len(prog)
    /\ LET Read(x) ==
               IF x.panic
               THEN /\ err' = RuntimePanic /\ pc' = "done"
                    /\ UNCHANGED <<br, vals>>
               ELSE /\ br' = x.a /\ vals' = Append(vals, <<x.v>>)
                    /\ UNCHANGED <<err, pc>>
       IN Read(BitsRead(br, prog[Len(vals) + 1].n))
    /\ UNCHANGED <<input, prog, rprog, blob, merr, raw, reader, lastRead,
                   blob2, event, target, call, writer, pack, digest, bw>>

\* reader.Read(reader.NonReadBits() + 1) after the words
ReadPastEnd ==
    /\ pc = "read"
    /\ Len(vals) = Len(prog)
    /\ LET Read(x) ==
               /\ err' = IF x.panic THEN RuntimePanic ELSE "nil"
               /\ br' = x.a
       IN Read(BitsRead(br, NonReadBits(br) + 1))
    /\ call' = "ReadPastEnd"
    /\ pc' = "done"
    /\ UNCHANGED <<input, prog, rprog, blob, merr, raw, reader, vals, lastRead,
                   blob2, event, target, writer, pack, digest, bw>>

NextBits == WriteWord \/ ReadWord \/ ReadPastEnd

SpecBits == InitBits /\ [][NextBits]_vars

----------------------------------------------------------------------------
(* Big integers off the wire: an encoder other than Writer.BigInt ships    *)
(* any short magnitude as a byte slice; the decoder reads it with BigInt.  *)

\* the byte slices shipped where a big integer is expected
Magnitudes ==
    {<<>>, <<5>>, <<0>>, <<0, 5>>, <<0, 0>>, <<1, 0>>, <<0, 1, 0>>,
     <<255, 255>>, WideMagnitude}

InitBig ==
    /\ \E pre \in SeqsUpTo(PreOps, MaxOps - 1) :
          \E m \in Magnitudes :
              /\ prog = Append(pre, Op("SliceBytes", m, 512))
              /\ rprog = Append(pre, Op("BigInt", <<>>, 0))
    /\ pc = "marshal"
    /\ input = "intact"
    /\ blob = <<>> /\ merr = "nil" /\ raw = NoRaw /\ reader = NoReader
    /\ vals = <<>> /\ err = "pending" /\ lastRead = NoRead /\ blob2 = <<>>
    /\ event = NoEvent /\ target = NoEvent /\ call = ""
    /\ writer = NewWriter /\ NoVotesNoBits

SpecBig == InitBig /\ [][NextRT]_vars

----------------------------------------------------------------------------
(* Marked transactions: an encoder other than TransactionMarshalCSER       *)
(* writes the six-zero-bit marker and a type byte of its choice before     *)
(* the fields of a transaction                                             *)

\* the writes of the fields of tx behind the marker and the type byte t
MarkedWrites(t, tx) ==
    LET Fields(ops) ==
            IF tx.Type = LegacyTxType THEN ops ELSE SubSeq(ops, 3, Len(ops))
    IN <<Op("Bits", <<0>>, 6), Op("U8", <<t>>, 0)>>
       \o Fields(TransactionMarshalCSER(tx))

\* the type byte behind the marker
TypeByte == prog[2].v[1]

InitMarked ==
    /\ input = "transaction"
    /\ event \in {tx \in TxInputs :
                     \/ tx.Type \in {AccessListTxType, DynamicFeeTxType}
                     \/ tx.Type = LegacyTxType /\ Less64(FromInt(255), tx.Gas)}
    /\ \E t \in {LegacyTxType, AccessListTxType, DynamicFeeTxType,
                 DynamicFeeTxType + 1, 255} :
          /\ event.Type = LegacyTxType
             => t \notin {AccessListTxType, DynamicFeeTxType}
          /\ event.Type # LegacyTxType => t = event.Type
          /\ prog = MarkedWrites(t, event)
    /\ rprog = <<>>
    /\ target = NoEvent /\ call = ""
    /\ pc = "marshal"
    /\ blob = <<>> /\ merr = "nil" /\ raw = NoRaw /\ reader = NoReader
    /\ vals = <<>> /\ err = "pending" /\ lastRead = NoRead /\ blob2 = <<>>
    /\ writer = NewWriter /\ NoVotesNoBits

SpecMarked == InitMarked /\ [][NextTx]_vars

----------------------------------------------------------------------------
(* Headers off the wire: the encoding Event.MarshalCSER makes of an event, *)
(* or the fields another encoder lays out as eventUnmarshalCSER reads them *)

\* what another encoder puts on the wire: the marker and the version byte
\* behind it (or neither), epoch, lamport, the lamport difference of each
\* parent, the content flags and the payload hash (<<>> when it sends none)
Wire(marker, version, epoch, lamport, diffs, flags, hash) ==
    [marker |-> marker, version |-> version, epoch |-> epoch,
     lamport |-> lamport, diffs |-> diffs, flags |-> flags, hash |-> hash]

\* the writes of those fields in the order of the format
WireWrites(f) ==
    LET U32(v) == Op("U32", v, 0)
        U64(v) == Op("U64", v, 0)
        Parents == [i \in 1..(2 * Len(f.diffs)) |->
                       IF i % 2 = 1 THEN U32(f.diffs[(i + 1) \div 2])
                       ELSE Op("FixedBytes", [j \in 1..24 |-> i \div 2], 24)]
    IN (IF f.marker
        THEN <<Op("Bits", <<0>>, 2), Op("U8", <<f.version>>, 0)>> ELSE <<>>)
       \o (IF f.marker /\ f.version > 0
           THEN <<Op("U16", FromInt(513), 0)>> ELSE <<>>)
       \o <<U32(f.epoch), U32(f.lamport), U32(FromInt(1)), U32(FromInt(2)),
            U32(FromInt(3)), U64(FromInt(9)), Op("I64", FromInt(4), 0),
            U64(Zero8), U64(Zero8), U64(Zero8),
            U32(FromInt(Len(f.diffs)))>>
       \o Parents
       \o <<BoolOp(FALSE), BoolOp(f.flags[1])>>
       \o (IF f.marker /\ f.version > 0
           THEN <<BoolOp(f.flags[2]), BoolOp(f.flags[3]), BoolOp(f.flags[4])>>
           ELSE <<>>)
       \o (IF f.hash # <<>> THEN <<Op("FixedBytes", f.hash, 32)>> ELSE <<>>)
       \o <<Op("SliceBytes", <<7>>, ProtocolMaxMsgSize)>>

WireHeaders ==
    UNION {{Wire(mv[1], mv[2], ep, FromInt(1000), diffs, fl, h) :
               ep \in {Zero8, FromInt(255), FromInt(256)},
               diffs \in {<<>>, <<Zero8>>, <<FromInt(1000)>>,
                          <<FromInt(1001)>>, <<FromInt(1), Max32>>},
               fl \in FlagSets,
               h \in {<<>>, EmptyPayloadHash(mv[2]), Hash32(8)}} :
           mv \in {<<FALSE, 0>>, <<TRUE, 0>>, <<TRUE, 1>>, <<TRUE, 2>>}}

InitWire ==
    /\ \/ /\ input = "intact"
          /\ event \in Headers
          /\ prog = EventMarshalCSER(event)
       \/ /\ input = "foreign"
          /\ event \in WireHeaders
          /\ prog = WireWrites(event)
    /\ target = ZeroEvent
    /\ call = ""
    /\ pc = "marshal"
    /\ rprog = <<>>
    /\ blob = <<>> /\ merr = "nil" /\ raw = NoRaw /\ reader = NoReader
    /\ vals = <<>> /\ err = "pending" /\ lastRead = NoRead /\ blob2 = <<>>
    /\ writer = NewWriter /\ NoVotesNoBits

NextWire == Marshal \/ Deliver \/ DecodeHeader

SpecWire == InitWire /\ [][NextWire]_vars

----------------------------------------------------------------------------
(* Payloads off the wire: another encoder writes the header, the signature *)
(* and the part behind each set flag as EventPayload.MarshalCSER does, but *)
(* without its checks of the flags, so a part may be empty or hold zeros   *)

\* the writes of such an encoder
PartsWrites(e) ==
    EventMarshalCSER(e)
    \o <<Op("FixedBytes", e.sig, SigSize)>>
    \o (IF e.anyTxs
        THEN IF e.version = 0 THEN MarshalTxsCSER(e.txs)
             ELSE <<Op("SliceBytes", rlpEncodeToBytes(e.txs),
                       ProtocolMaxMsgSize)>>
        ELSE <<>>)
    \o (IF e.anyMisbehaviourProofs
        THEN <<Op("SliceBytes", rlpEncodeToBytes(e.misbehaviourProofs),
                  ProtocolMaxMsgSize)>>
        ELSE <<>>)
    \o (IF e.anyEpochVote THEN LlrEpochVoteMarshalCSER(e.epochVote) ELSE <<>>)
    \o (IF e.anyBlockVotes THEN LlrBlockVotesMarshalCSER(e.blockVotes)
        ELSE <<>>)

\* the flag sets of a version: version 0 has the transactions flag only
PartFlags(v) ==
    IF v = 0 THEN {fl \in FlagSets : ~fl[2] /\ ~fl[3] /\ ~fl[4]}
    ELSE FlagSets \cup {<<FALSE, TRUE, FALSE, FALSE>>,
                        <<FALSE, FALSE, FALSE, TRUE>>}

BlockVotesOnWire ==
    {[Start |-> FromInt(s), Epoch |-> FromInt(ep),
      Votes |-> [i \in 1..n |-> Hash32(6)]] :
        s \in {0, 1}, ep \in {0, 5}, n \in {0, MaxParts}}

WirePayloads ==
    UNION {{[Payload(v, FromInt(256), fl, TRUE) EXCEPT
                !.txs = IF full THEN @ ELSE <<>>,
                !.misbehaviourProofs = IF full THEN @ ELSE <<>>,
                !.epochVote = [Epoch |-> FromInt(ep), Vote |-> Hash32(4)],
                !.blockVotes = bvs] :
               fl \in PartFlags(v), full \in BOOLEAN, ep \in {0, 5},
               bvs \in BlockVotesOnWire} :
           v \in {0, 1}}

InitParts ==
    /\ input = "foreign"
    /\ event \in WirePayloads
    /\ prog = PartsWrites(event)
    /\ target \in {ZeroEvent, PriorEvent}
    /\ call = ""
    /\ pc = "marshal"
    /\ rprog = <<>>
    /\ blob = <<>> /\ merr = "nil" /\ raw = NoRaw /\ reader = NoReader
    /\ vals = <<>> /\ err = "pending" /\ lastRead = NoRead /\ blob2 = <<>>
    /\ writer = NewWriter /\ NoVotesNoBits

NextParts ==
    Marshal \/ Deliver \/ DecodeMutableEventPayload \/ DecodeEventPayload

SpecParts == InitParts /\ [][NextParts]_vars

----------------------------------------------------------------------------
(* Signed integers off the wire: another encoder writes a sign bit and any *)
(* 64-bit magnitude, as Writer.I64 lays them out; the decoder reads I64    *)

\* 2^63 + 1
AboveMinInt64 == <<1, 0, 0, 0, 0, 0, 0, 128>>

SignedMagnitudes ==
    {Zero8, FromInt(1), FromInt(256), MaxInt64, MinInt64, AboveMinInt64,
     Max64}

InitSigned ==
    /\ \E pre \in SeqsUpTo(PreOps, MaxOps - 1) :
          \E sign \in {0, 1}, abs \in SignedMagnitudes :
              /\ prog = pre \o <<Op("Bool", <<sign>>, 0), Op("U64", abs, 0)>>
              /\ rprog = Append(pre, Op("I64", <<>>, 0))
    /\ pc = "marshal"
    /\ input = "intact"
    /\ blob = <<>> /\ merr = "nil" /\ raw = NoRaw /\ reader = NoReader
    /\ vals = <<>> /\ err = "pending" /\ lastRead = NoRead /\ blob2 = <<>>
    /\ event = NoEvent /\ target = NoEvent /\ call = ""
    /\ writer = NewWriter /\ NoVotesNoBits

SpecSigned == InitSigned /\ [][NextRT]_vars

----------------------------------------------------------------------------
(* Claims                                                                  *)

Written == [i \in 1..Len(prog) |-> prog[i].v]

\* C1: the matching reads over the blob of MarshalBinaryAdapter return nil
\* and yield exactly the values written, in order
C1_RoundTrip ==
    (pc = "done" /\ input = "intact") => (err = "nil" /\ vals = Written)

C1_Witness ==
    /\ pc = "done" /\ input = "intact" /\ err = "nil"
    /\ Len(prog) = 2
    /\ prog[1] = Op("I64", MinInt64, 0)
    /\ prog[2] = Op("SliceBytes", <<1, 128>>, 2)
    /\ vals = <<MinInt64, <<1, 128>>>>

\* C3: every proper prefix of a blob of MarshalBinaryAdapter is rejected
\* with the malformed error
C3_TruncationMalformed ==
    (pc = "done" /\ input = "truncated") => err = ErrMalformedEncoding

C3_TruncationNeverAccepted ==
    (pc = "done" /\ input = "truncated") => err # "nil"

\* C4: a blob of MarshalBinaryAdapter followed by one 0x00 byte is rejected
\* as non-canonical or malformed
C4_TrailingByteRejected ==
    (pc = "done" /\ input = "extended")
        => err \in {ErrNonCanonicalEncoding, ErrMalformedEncoding}

C4_Witness ==
    /\ pc = "done" /\ input = "extended"
    /\ err = ErrNonCanonicalEncoding

C4_WitnessMalformed ==
    /\ pc = "done" /\ input = "extended"
    /\ err = ErrMalformedEncoding

\* C2: an accepted blob is the encoding of the values decoded from it
C2_CanonicalUnique ==
    pc = "reencoded" => blob2 = RawBytes

\* C9: a panic raised anywhere in UnmarshalBinaryAdapter is recovered and
\* the call returns the malformed error
C9_PanicsRecovered ==
    (pc = "done" /\ lastRead.panic # NoPanic) => err = ErrMalformedEncoding

C9_Witness ==
    /\ pc = "done" /\ err = ErrMalformedEncoding
    /\ lastRead.k = "SliceBytes" /\ lastRead.panic = ErrTooLargeAlloc

\* the slice length a forged encoder declared exceeds the reader's limit
DeclaredTooLarge ==
    /\ Len(prog) = 2 /\ prog[1].k = "U56"
    /\ Len(rprog) = 1 /\ rprog[1].k = "SliceBytes"
    /\ Less64(FromInt(rprog[1].n), prog[1].v)

\* number of bytes that carry the declared length
LengthBytes == Len(writeUint64BitCompact(prog[1].v, 0, 0))

NegativeZeroInput == rprog = <<Op("I64", <<>>, 0)>> /\ RawBytes = <<0, 1, 129>>
SuperfluousByteInput == rprog = <<Op("U32", <<>>, 0)>> /\ RawBytes = <<1, 0, 1, 129>>
ZeroTerminatorInput ==
    raw.len >= 2 /\ SubSeq(raw.arr, raw.len - 1, raw.len) = <<128, 0>>

\* C8: a non-minimal primitive encoding makes UnmarshalBinaryAdapter return
\* the non-canonical error
C8_NonMinimalIsNonCanonical ==
    (pc = "done" /\ (NegativeZeroInput \/ SuperfluousByteInput \/ ZeroTerminatorInput))
        => err = ErrNonCanonicalEncoding

ClosureReturnedNil == Len(vals) = Len(rprog)
ClosureFailed == Len(vals) < Len(rprog) /\ rprog[Len(vals) + 1].k = "Fail"
UnreadBitBytes == Len(reader.BitsR.Bytes) - reader.BitsR.byteOffset
UnreadBitsNonZero ==
    \E i \in (reader.BitsR.byteOffset + 1)..Len(reader.BitsR.Bytes) :
        IF i = reader.BitsR.byteOffset + 1
        THEN reader.BitsR.Bytes[i] \div Pow2(reader.BitsR.bitOffset) # 0
        ELSE reader.BitsR.Bytes[i] # 0
ByteCursorNotAtEnd == reader.BytesR.offset # reader.BytesR.blen

C10_WitnessOneZeroByte ==
    /\ pc = "done" /\ lastRead.k = "tail"
    /\ err = "nil"
    /\ UnreadBitBytes = 1 /\ reader.BitsR.bitOffset = 0

\* the headers C5 speaks of: version 0 with epoch >= 256 or version 1, no
\* parent above the event's lamport, payload hash consistent with the flags
ValidHeader(e) ==
    /\ e.version \in {0, 1}
    /\ e.version = 0 => ~Less64(e.epoch, FromInt(256))
    /\ \A i \in 1..Len(e.parents) :
          ~Less64(e.lamport, ParentLamport(e.parents[i]))
    /\ AnyContent(e) <=> e.payloadHash # EmptyPayloadHash(e.version)

HeaderFields ==
    {"version", "netForkID", "epoch", "lamport", "creator", "seq", "frame",
     "creationTime", "medianTime", "gasPowerUsed", "gasPowerLeft",
     "prevEpochHash", "anyTxs", "anyMisbehaviourProofs", "anyEpochVote",
     "anyBlockVotes", "payloadHash", "extra"}

HeaderRestored(d, e) ==
    /\ \A n \in HeaderFields : d[n] = e[n]
    /\ Len(d.parents) = Len(e.parents)
    /\ \A i \in 1..Len(e.parents) :
          /\ ParentLamport(d.parents[i]) = ParentLamport(e.parents[i])
          /\ ParentSuffix(d.parents[i]) = ParentSuffix(e.parents[i])

\* C5: decoding the encoding of a valid event header returns nil and
\* restores every field, the median time and each parent's lamport and
\* 24-byte suffix included
C5_HeaderRoundTrip ==
    (pc = "done" /\ call = "eventUnmarshalCSER" /\ ValidHeader(event))
        => (err = "nil" /\ HeaderRestored(target, event))

\* C6: a failed decode of an event payload leaves the caller's structure
\* as it was before the call
C6_FailedDecodeLeavesTarget ==
    [][(pc = "ready" /\ pc' = "done" /\ err' # "nil") => target' = target]_vars

\* the hashes of the four parts of the event
TxsHash == CalcTxHash(event.txs)
MpsHash == CalcMisbehaviourProofsHash(event.misbehaviourProofs)
EpochVoteHash == LlrEpochVoteHash(event.epochVote)
BlockVotesHash == LlrBlockVotesHash(event.blockVotes)

\* C11: the payload hash reconstructed from the block votes pack of an event
\* and the one reconstructed from its epoch vote pack are equal to each
\* other and to H(H(txs_hash, mps_hash), H(epoch_vote_hash,
\* block_votes_hash)) of the event: the hash of the transactions and proofs
\* first, the epoch vote hash before the block votes hash
C11_PartialPayloadHash ==
    /\ LlrSignedBlockVotesCalcPayloadHash(AsSignedBlockVotes(event))
         = LlrSignedEpochVoteCalcPayloadHash(AsSignedEpochVote(event))
    /\ (pc = "done" /\ pack # NoPack) =>
          /\ digest = hashOf(hashOf(TxsHash, MpsHash),
                             hashOf(EpochVoteHash, BlockVotesHash))
          /\ digest = CalcPayloadHash(event)
          /\ digest = pack.Signed.Locator.PayloadHash

\* the hash was reconstructed from the epoch vote pack of an event with all
\* four parts
C11_Witness ==
    /\ pc = "done" /\ call = "AsSignedEpochVote"
    /\ digest = LlrSignedEpochVoteCalcPayloadHash(pack)
    /\ event.txs # <<>> /\ event.misbehaviourProofs # <<>>
    /\ event.epochVote.Epoch # Zero8 /\ Len(event.blockVotes.Votes) = MaxVotes

\* the closure returns an error at some point
ClosureReturnsError ==
    \E i \in 1..Len(prog) : prog[i].k \in {"Fail", "Return"}

\* the closure is handed a negative big integer before it returns
WritesNegativeBigInt ==
    \E i \in 1..Len(prog) :
        /\ prog[i].k = "BigInt" /\ BigIntSign(prog[i].v) < 0
        /\ \A j \in 1..(i - 1) : prog[j].k \notin {"Fail", "Return"}

UnsupportedTxType ==
    /\ input = "transaction"
    /\ event.Type \notin {LegacyTxType, AccessListTxType, DynamicFeeTxType}

LegacyGasTooLow ==
    /\ input = "transaction"
    /\ event.Type = LegacyTxType /\ ~Less64(FromInt(255), event.Gas)

\* the encode call returned an error value and no output bytes
EncodeRejected == merr # "nil" /\ blob = <<>>

\* C12: an unsupported transaction type, a legacy transaction with gas <=
\* 0xFF, a negative big integer or any other error returned by the write
\* closure makes the encode call return an error and no output bytes,
\* whatever had been written to the streams
C12_EncodersValidate ==
    (pc # "marshal"
     /\ (\/ UnsupportedTxType \/ LegacyGasTooLow
         \/ WritesNegativeBigInt \/ ClosureReturnsError))
    => EncodeRejected

\* the transaction is one TransactionMarshalCSER encodes: legacy with gas
\* above 0xFF, or access-list or dynamic-fee with any gas
EncodableTx ==
    /\ input = "transaction"
    /\ \/ event.Type = LegacyTxType /\ Less64(FromInt(255), event.Gas)
       \/ event.Type \in {AccessListTxType, DynamicFeeTxType}

\* C13: every legacy transaction with gas > 0xFF and every access-list or
\* dynamic-fee transaction decodes from its encoding to a transaction of the
\* same type, nonce, gas, fee fields, value, recipient, data, V, R, S, chain
\* id and access list
C13_TxRoundTrip ==
    (pc = "done" /\ EncodableTx) => (err = "nil" /\ target = event)

\* the same for the transactions whose big integers are not negative
C13_NonNegativeTxRoundTrip ==
    (pc = "done" /\ EncodableTx /\ BigIntSign(event.Value) >= 0)
    => (err = "nil" /\ target = event)

\* a legacy transaction with gas exactly 0x100 came back
C13_WitnessLegacy ==
    /\ pc = "done" /\ EncodableTx /\ event.Type = LegacyTxType
    /\ event.Gas = FromInt(256) /\ target = event

\* a dynamic-fee transaction with gas 0 and an access list came back
C13_WitnessTyped ==
    /\ pc = "done" /\ EncodableTx /\ event.Type = DynamicFeeTxType
    /\ event.Gas = Zero8 /\ Len(event.AccessList) > 1 /\ target = event

\* the last write of the closure and the Writer before it
LastOp == prog[Len(prog)]
Before == RunWrites(NewWriter, SubSeq(prog, 1, Len(prog) - 1), 1).w

\* the number of bits a bits.Writer holds
BitsWritten(a) ==
    IF a.bitOffset = 0 THEN 8 * Len(a.Bytes)
    ELSE 8 * (Len(a.Bytes) - 1) + a.bitOffset

\* bit i of the array (from 0, least significant bit of a byte first), and
\* the n bits from position pos as a number
BitAt(bytes, i) == (bytes[(i \div 8) + 1] \div Pow2(i % 8)) % 2

RECURSIVE BitField(_, _, _)
BitField(bytes, pos, n) ==
    IF n = 0 THEN 0
    ELSE BitAt(bytes, pos) + 2 * BitField(bytes, pos + 1, n - 1)

\* the smallest number of bytes that holds the 64-bit value v
MinBytes(v) ==
    IF v = Zero8 THEN 0
    ELSE CHOOSE k \in 1..8 : v[k] # 0 /\ \A j \in (k + 1)..8 : v[j] = 0

MinSize(k) == IF k = "U56" THEN 0 ELSE 1

BitsForSize(k) == IF k = "U16" THEN 1 ELSE IF k = "U32" THEN 2 ELSE 3

StoredBytes(k, v) ==
    IF MinBytes(v) < MinSize(k) THEN MinSize(k) ELSE MinBytes(v)

\* the write put bytes behind the byte stream and the n-bit number size
\* behind the bit stream, and changed nothing before them
Appended(before, after, bytes, n, size) ==
    /\ after.BytesW = before.BytesW \o bytes
    /\ BitsWritten(after.BitsW) = BitsWritten(before.BitsW) + n
    /\ BitField(after.BitsW.Bytes, BitsWritten(before.BitsW), n) = size
    /\ \A i \in 0..(BitsWritten(before.BitsW) - 1) :
          BitAt(after.BitsW.Bytes, i) = BitAt(before.BitsW.Bytes, i)

\* C14: U16, U32, U64, VarUint and U56 store v as its k least significant
\* bytes, little-endian, k the smallest count that holds v but at least
\* minSize (1, 1, 1, 1, 0), and write k - minSize in 1, 2, 3, 3, 3 bits; U8
\* writes one byte and no bits
C14_IntegerLayout ==
    /\ (pc # "marshal"
        /\ LastOp.k \in {"U16", "U32", "U64", "VarUint", "U56"})
       => Appended(Before, writer,
                   SubSeq(LastOp.v, 1, StoredBytes(LastOp.k, LastOp.v)),
                   BitsForSize(LastOp.k),
                   StoredBytes(LastOp.k, LastOp.v) - MinSize(LastOp.k))
    /\ (pc # "marshal" /\ LastOp.k = "U8")
       => Appended(Before, writer, LastOp.v, 0, 0)

\* U64(256) wrote the bytes 0x00 0x01 and the length offset 1
C14_Witness ==
    /\ pc = "packed"
    /\ prog = <<Op("U64", FromInt(256), 0)>>
    /\ writer.BytesW = <<0, 1>>
    /\ writer.BitsW = [Bytes |-> <<1>>, bitOffset |-> 3]

\* the absolute value of a 64-bit signed value, in 64 bits
Abs64(v) == IF v[8] >= 128 THEN Neg64(v) ELSE v

\* C15: I64 writes one sign bit, then the U64 of the absolute value, and
\* every 64-bit signed value comes back from its encoding, the minimum
\* included; the sign bit of zero is 0
C15_I64SignAndMagnitude ==
    /\ (pc # "marshal" /\ LastOp.k = "I64")
       => /\ Appended(Before, writer,
                      SubSeq(Abs64(LastOp.v), 1, StoredBytes("U64", Abs64(LastOp.v))),
                      4,
                      (IF LastOp.v[8] >= 128 THEN 1 ELSE 0)
                      + 2 * (StoredBytes("U64", Abs64(LastOp.v)) - 1))
          /\ LastOp.v = Zero8
             => BitAt(writer.BitsW.Bytes, BitsWritten(Before.BitsW)) = 0
    /\ (pc = "done" /\ LastOp.k = "I64")
       => (err = "nil" /\ vals = Written)

\* the minimum value, whose negation is itself in 64 bits, came back
C15_Witness ==
    /\ pc = "done" /\ LastOp = Op("I64", MinInt64, 0)
    /\ err = "nil" /\ vals[Len(vals)] = MinInt64
    /\ BitAt(writer.BitsW.Bytes, BitsWritten(Before.BitsW)) = 1

\* C16: a big integer whose magnitude fits the 512 bytes of Reader.BigInt
\* decodes from its encoding as its magnitude, so a negative one comes back
\* positive; zero is encoded as a slice of length 0
C16_BigIntMagnitudeOnly ==
    /\ (pc = "done" /\ LastOp.k = "BigInt"
        /\ Len(BigIntBytes(LastOp.v)) <= 512)
       => /\ err = "nil"
          /\ Len(vals) = Len(prog)
          /\ vals[Len(vals)] = BigIntBytes(LastOp.v)
          /\ BigIntSign(vals[Len(vals)]) >= 0
    /\ (pc # "marshal" /\ LastOp.k = "BigInt" /\ BigIntSign(LastOp.v) = 0)
       => Appended(Before, writer, <<>>, 3, 0)

\* -5 came back as 5
C16_Witness ==
    /\ pc = "done" /\ LastOp = Op("BigInt", <<-1, 5>>, 0)
    /\ err = "nil" /\ vals[Len(vals)] = <<5>>

\* zero was written as a slice of length 0 and came back as zero
C16_WitnessZero ==
    /\ pc = "done" /\ prog = <<Op("BigInt", <<>>, 0)>>
    /\ writer.BytesW = <<>> /\ err = "nil" /\ vals = << <<>> >>

\* the words have a width of at least 1 and fit it
Fits(w) == w.n >= 1 /\ (w.n >= 31 \/ w.v[1] < 2^(w.n))
AllFit(ws) == \A i \in 1..Len(ws) : Fits(ws[i])

\* C17: for words of width n_i >= 1 with v_i < 2^n_i, Read(n_i) in the order
\* of the writes returns v_i each time, also for words across byte
\* boundaries; reading more bits than remain fails
C17_BitsRoundTrip ==
    /\ (AllFit(prog) /\ pc \in {"read", "done"})
       => /\ vals = [i \in 1..Len(vals) |-> prog[i].v]
          /\ pc = "done" => (Len(vals) = Len(prog) /\ call = "ReadPastEnd")
    /\ (pc = "done" /\ call = "ReadPastEnd") => err = RuntimePanic

\* a word of 17 bits written across the byte boundaries behind a 3-bit word
\* was read back, and the read past the end failed
C17_Witness ==
    /\ pc = "done" /\ call = "ReadPastEnd" /\ err = RuntimePanic
    /\ prog = <<Word(3, 5), Word(17, 65537)>>
    /\ vals = << <<5>>, <<65537>> >>

\* the total width of the words
RECURSIVE TotalWidth(_)
TotalWidth(ws) == IF ws = <<>> THEN 0 ELSE ws[1].n + TotalWidth(Tail(ws))

\* bit i (from 0) of the stream of the low n bits of each word, one word
\* after the other
RECURSIVE StreamBit(_, _)
StreamBit(ws, i) ==
    IF i < ws[1].n
    THEN IF i > 30 THEN 0 ELSE (ws[1].v[1] \div 2^i) % 2
    ELSE StreamBit(Tail(ws), i - ws[1].n)

\* the array holds ceil(T / 8) bytes and nothing but zeros behind bit T
ArrayFitsWritten(a, T) ==
    /\ Len(a.Bytes) = (T + 7) \div 8
    /\ \A i \in T..(8 * Len(a.Bytes) - 1) : BitAt(a.Bytes, i) = 0

\* C18: after writes of T bits in total the array holds exactly ceil(T / 8)
\* bytes and every bit of the last byte beyond the written bits is zero;
\* NonReadBits of the reader is 8 * NonReadBytes minus the offset inside
\* the byte, before and after every read
C18_ArraySizeAndPadding ==
    /\ ArrayFitsWritten(bw, TotalWidth(rprog))
    /\ NonReadBits(br) = 8 * (Len(br.Bytes) - br.byteOffset) - br.bitOffset

\* the same for words that fit their width, with the count of unread bits
\* the test expects
C18_FittingWords ==
    AllFit(prog) =>
       /\ ArrayFitsWritten(bw, TotalWidth(rprog))
       /\ NonReadBits(br) = 8 * (Len(br.Bytes) - br.byteOffset) - br.bitOffset
       /\ (pc = "read" \/ (pc = "done" /\ err # RuntimePanic)) =>
             NonReadBits(br) = 8 * ((TotalWidth(prog) + 7) \div 8)
                               - TotalWidth(SubSeq(prog, 1, Len(vals)))

\* C19: Write(n, v) appends exactly the low n bits of v for 0 <= n <= 32 and
\* every v: the stream grows by exactly n bits, bits of v above n neither
\* reach the stream nor change bits written later, Write(0, v) changes
\* neither the array nor the cursor
C19_WriteLowBitsOnly ==
    /\ BitsWritten(bw) = TotalWidth(rprog)
    /\ \A i \in 0..(TotalWidth(rprog) - 1) :
          i < 8 * Len(bw.Bytes) /\ BitAt(bw.Bytes, i) = StreamBit(rprog, i)
    /\ TotalWidth(rprog) = 0 => bw = NewBitsWriter

\* the same for words that fit their width
C19_FittingWords == AllFit(prog) => C19_WriteLowBitsOnly

\* the streams r hold, for a read of the integer type kind, a length offset
\* that makes k bytes with k above minSize, and the k-th byte is zero
StoredNonMinimal(r, kind) ==
    /\ r.BitsR.Bytes # <<>>
    /\ LET Zero(k) ==
               /\ k > MinSize(kind)
               /\ k <= r.BytesR.blen
               /\ r.BytesR.buf[k] = 0
       IN Zero(BitField(r.BitsR.Bytes, 0, BitsForSize(kind)) + MinSize(kind))

\* C20: Reader.U16, U32, U64, VarUint and U56 reject as non-canonical every
\* encoding of k > minSize bytes whose most significant stored byte is
\* zero; for U56 this includes 0 stored as one 0x00 byte
C20_NonMinimalRejected ==
    (/\ lastRead.k \in {"U16", "U32", "U64", "VarUint", "U56"}
     /\ StoredNonMinimal(BodyReader(raw), lastRead.k))
    => lastRead.panic = ErrNonCanonicalEncoding

\* the same for the types of minSize 1
C20_MinSizeOne ==
    (/\ lastRead.k \in {"U16", "U32", "U64", "VarUint"}
     /\ StoredNonMinimal(BodyReader(raw), lastRead.k))
    => lastRead.panic = ErrNonCanonicalEncoding

\* the slice shipped for the big integer
Shipped == prog[Len(prog)].v

\* the decoder has run Reader.BigInt on the shipped slice
BigIntWasRead ==
    /\ pc = "done" /\ prog[Len(prog)].k = "SliceBytes"
    /\ rprog[Len(rprog)].k = "BigInt" /\ lastRead.k \in {"BigInt", "tail"}

\* C21: Reader.BigInt rejects as non-canonical a magnitude whose first
\* byte is zero, so the decode of such a slice does not return nil
C21_LeadingZeroRejected ==
    (BigIntWasRead /\ Shipped # <<>> /\ Shipped[1] = 0)
        => /\ err # "nil"
           /\ lastRead.panic = ErrNonCanonicalEncoding

\* a slice of at most 512 bytes without a leading zero byte is accepted as
\* the integer of that magnitude
C21_MinimalAccepted ==
    (BigIntWasRead /\ Len(Shipped) <= 512
     /\ (Shipped = <<>> \/ Shipped[1] # 0))
        => /\ err = "nil"
           /\ vals[Len(vals)] = Shipped

\* the number of bits a bits.Reader has consumed
BitsConsumed(a) == 8 * a.byteOffset + a.bitOffset

\* the six bits at the head of the bit stream the encoder wrote
HeadBits == BitField(writer.BitsW.Bytes, 0, 6)

\* the 3-bit length offset Writer.U64 writes for v
U64LengthOffset(v) == IF v = Zero8 THEN 0 ELSE MinBytes(v) - 1

\* C22: the bit stream of an encoded legacy transaction (gas > 0xFF) starts
\* with the length offsets of nonce and gas, which are not both zero; the
\* one of an encoded type-1 or type-2 transaction starts with six zero
\* bits; the decoder consumes every bit the encoder wrote and no other, and
\* returns a transaction of the type encoded
C22_TypeDispatch ==
    (pc # "marshal" /\ EncodableTx)
    => /\ merr = "nil"
       /\ event.Type = LegacyTxType
          => /\ HeadBits # 0
             /\ HeadBits = U64LengthOffset(event.Nonce)
                           + 8 * U64LengthOffset(event.Gas)
       /\ event.Type # LegacyTxType => HeadBits = 0
       /\ pc = "done"
          => /\ err = "nil"
             /\ target.Type = event.Type
             /\ BitsConsumed(TransactionUnmarshalCSER(BodyReader(raw)).r.BitsR)
                = BitsWritten(writer.BitsW)

\* a legacy transaction of nonce 0 (offset 0) and gas 0x100 (offset 1) came
\* back as legacy
C22_WitnessLegacy ==
    /\ pc = "done" /\ EncodableTx /\ event.Type = LegacyTxType
    /\ event.Nonce = Zero8 /\ event.Gas = FromInt(256)
    /\ HeadBits = 8 /\ target.Type = LegacyTxType

\* an access-list transaction came back as one
C22_WitnessTyped ==
    /\ pc = "done" /\ EncodableTx /\ event.Type = AccessListTxType
    /\ HeadBits = 0 /\ target.Type = AccessListTxType

\* C23: TransactionUnmarshalCSER returns unknown-tx-type whenever the
\* marker is followed by a type byte other than 1 or 2, the type byte 0
\* included
C23_MarkerTypeOneOrTwo ==
    (pc = "done" /\ TypeByte \notin {AccessListTxType, DynamicFeeTxType})
        => err = ErrUnknownTxType

\* the same for the type bytes above 2; the type bytes 1 and 2 are accepted
C23_UnknownAboveTwo ==
    /\ (pc = "done" /\ TypeByte > DynamicFeeTxType) => err = ErrUnknownTxType
    /\ (pc = "done" /\ TypeByte \in {AccessListTxType, DynamicFeeTxType})
           => (err = "nil" /\ target.Type = TypeByte)

\* the marker followed by the type byte 0 yields a legacy transaction
C23_LegacyThroughMarker ==
    (pc = "done" /\ TypeByte = LegacyTxType)
        => /\ err = "nil"
           /\ target = [event EXCEPT !.Value = BigIntBytes(@)]

\* the two bits at the head of the bit stream the encoder wrote
HeadTwoBits == BitField(writer.BitsW.Bytes, 0, 2)

\* Event.MarshalCSER has run on event
HeaderEncoded == input = "intact" /\ pc # "marshal"

\* eventUnmarshalCSER has run on the fields another encoder sent
WireDecoded == input = "foreign" /\ pc = "done"

\* C24: a header of version > 0 is encoded with two zero bits and the
\* version byte; a version-0 header of epoch < 256 is refused with
\* too-low-epoch and one of epoch >= 256 does not start with two zero bits;
\* decode rejects the marker with version byte 0 as non-canonical and a
\* version above 1 as unknown, and every version-0 header it accepts has
\* epoch >= 256
C24_VersionDispatch ==
    /\ (HeaderEncoded /\ event.version > 0)
       => /\ merr # ErrTooLowEpoch
          /\ HeadTwoBits = 0
          /\ writer.BytesW[1] = event.version
    /\ (HeaderEncoded /\ event.version = 0)
       => IF Less64(event.epoch, FromInt(256))
          THEN merr = ErrTooLowEpoch /\ blob = <<>>
          ELSE merr # ErrTooLowEpoch /\ HeadTwoBits # 0
    /\ (WireDecoded /\ event.marker /\ event.version = 0)
       => err = ErrNonCanonicalEncoding
    /\ (WireDecoded /\ event.marker /\ event.version > MaxSerializationVersion)
       => err = ErrUnknownVersion
    /\ (pc = "done" /\ input = "intact" /\ merr = "nil"
        /\ event.version > MaxSerializationVersion)
       => err = ErrUnknownVersion
    /\ (pc = "done" /\ err = "nil" /\ target.version = 0)
       => ~Less64(target.epoch, FromInt(256))

\* a version-0 header of epoch 256 was encoded and accepted as version 0
C24_Witness ==
    /\ pc = "done" /\ input = "intact" /\ event.version = 0
    /\ event.epoch = FromInt(256) /\ HeadTwoBits = 1
    /\ err = "nil" /\ target.version = 0

\* the marker with version byte 0 was rejected
C24_WitnessMarkerZero ==
    /\ WireDecoded /\ event.marker /\ event.version = 0
    /\ err = ErrNonCanonicalEncoding

\* some parent of e has a lamport above the lamport of e
ParentAbove(e) ==
    \E i \in 1..Len(e.parents) : Less64(e.lamport, ParentLamport(e.parents[i]))

\* a lamport difference on the wire exceeds the lamport on the wire
DiffAbove(f) == \E i \in 1..Len(f.diffs) : Less64(f.lamport, f.diffs[i])

\* C25: every header decode accepts has parent lamport <= own lamport for
\* each parent; a lamport difference above the event's lamport is rejected
\* as malformed
C25_ParentLamportChecked ==
    /\ (pc = "done" /\ err = "nil") => ~ParentAbove(target)
    /\ (WireDecoded /\ DiffAbove(event)) => err = ErrSerMalformedEvent

\* the encoder refuses a parent of a larger lamport, and a header accepted
\* from differences that do not exceed the lamport has no parent above it
C25_EncoderRefuses ==
    /\ (HeaderEncoded /\ ParentAbove(event)
        /\ (event.version > 0 \/ ~Less64(event.epoch, FromInt(256))))
       => merr = ErrSerMalformedEvent /\ blob = <<>>
    /\ (WireDecoded /\ ~DiffAbove(event) /\ err = "nil")
       => ~ParentAbove(target)

\* the version eventUnmarshalCSER takes the fields f for, and whether it
\* goes on to read them
WireVersion(f) == IF f.marker THEN f.version ELSE 0
WireVersionRead(f) ==
    \/ f.marker /\ f.version = 1
    \/ ~f.marker /\ ~Less64(f.epoch, FromInt(256))

\* a content flag the decoder reads from f is set
WireAnyContent(f) ==
    \/ f.flags[1]
    \/ WireVersion(f) > 0 /\ (f.flags[2] \/ f.flags[3] \/ f.flags[4])

\* C26: in every header decode accepts, the payload hash is the empty hash
\* of its version if and only if no content flag is set; with no flag set
\* no hash is read and the empty hash is assigned; with a flag set a hash on
\* the wire equal to the empty hash is rejected as non-canonical
C26_HashIffContent ==
    /\ (pc = "done" /\ err = "nil")
       => (target.payloadHash = EmptyPayloadHash(target.version)
           <=> ~AnyContent(target))
    /\ (WireDecoded /\ WireVersionRead(event) /\ ~DiffAbove(event)
        /\ ~WireAnyContent(event) /\ event.hash = <<>>)
       => /\ err = "nil"
          /\ target.payloadHash = EmptyPayloadHash(WireVersion(event))
    /\ (WireDecoded /\ WireVersionRead(event) /\ WireAnyContent(event)
        /\ event.hash = EmptyPayloadHash(WireVersion(event)))
       => err = ErrNonCanonicalEncoding

\* a version-1 header without content came back with the empty hash
C26_WitnessNoContent ==
    /\ WireDecoded /\ event.marker /\ event.version = 1
    /\ ~WireAnyContent(event) /\ event.hash = <<>>
    /\ err = "nil" /\ target.payloadHash = EmptyPayloadHash(1)

\* a version-1 header with flags and the empty hash on the wire was rejected
C26_WitnessEmptyOnWire ==
    /\ WireDecoded /\ event.marker /\ event.version = 1
    /\ event.flags[3] /\ event.hash = EmptyPayloadHash(1)
    /\ err = ErrNonCanonicalEncoding

\* a header with content and another hash was accepted with that hash
C26_WitnessContent ==
    /\ WireDecoded /\ WireAnyContent(event) /\ err = "nil"
    /\ target.payloadHash = Hash32(8) /\ AnyContent(target)

\* the payload on the wire has a set flag whose list is empty
FlagWithoutPart(e) ==
    \/ e.anyTxs /\ e.txs = <<>>
    \/ e.anyMisbehaviourProofs /\ e.misbehaviourProofs = <<>>

\* C27: payload decode fails with malformed when a set transactions or
\* misbehaviour-proofs flag comes with an empty decoded list
C27_FlagsCrossChecked ==
    (pc = "done" /\ FlagWithoutPart(event)) => err = ErrSerMalformedEvent

\* the epoch vote, and the block votes, on the wire break a rule of decode
BadEpochVote(e) == e.anyEpochVote /\ e.epochVote.Epoch = Zero8
BadBlockVotes(e) ==
    /\ e.anyBlockVotes
    /\ \/ Len(e.blockVotes.Votes) = 0
       \/ e.blockVotes.Start = Zero8
       \/ e.blockVotes.Epoch = Zero8

\* the parts a decode leaves when it reads none
NoEpochVote == [Epoch |-> Zero8, Vote |-> Zeros(32)]
NoBlockVotes == [Start |-> Zero8, Epoch |-> Zero8, Votes |-> <<>>]

\* a payload with a set flag and an empty list, and vote parts in order, is
\* accepted with the flag set and the list empty
C27_AcceptedWithEmptyList ==
    (pc = "done" /\ FlagWithoutPart(event)
     /\ ~BadEpochVote(event) /\ ~BadBlockVotes(event))
        => /\ err = "nil"
           /\ target.anyTxs = event.anyTxs
           /\ target.anyMisbehaviourProofs = event.anyMisbehaviourProofs
           /\ target.txs = <<>> /\ target.misbehaviourProofs = <<>>

\* C28: with the epoch-vote flag set decode returns non-canonical if the
\* vote's epoch is 0; with the block-votes flag set it returns non-canonical
\* if the vote count, start or epoch is 0; a part whose flag is unset is not
\* read and is left empty
C28_VotePartsValidated ==
    /\ (pc = "done" /\ BadEpochVote(event)) => err = ErrNonCanonicalEncoding
    /\ (pc = "done" /\ BadBlockVotes(event)) => err = ErrNonCanonicalEncoding
    /\ (pc = "done" /\ ~BadEpochVote(event) /\ ~BadBlockVotes(event))
       => /\ err = "nil"
          /\ target.epochVote = IF event.anyEpochVote THEN event.epochVote
                                ELSE NoEpochVote
          /\ target.blockVotes = IF event.anyBlockVotes THEN event.blockVotes
                                 ELSE NoBlockVotes

\* block votes of count 0 were rejected behind an epoch vote in order
C28_Witness ==
    /\ pc = "done" /\ event.anyEpochVote /\ ~BadEpochVote(event)
    /\ event.anyBlockVotes /\ event.blockVotes.Votes = <<>>
    /\ event.blockVotes.Start # Zero8 /\ event.blockVotes.Epoch # Zero8
    /\ err = ErrNonCanonicalEncoding

\* an epoch vote of epoch 0 was rejected
C28_WitnessEpochVote ==
    /\ pc = "done" /\ BadEpochVote(event) /\ ~event.anyBlockVotes
    /\ err = ErrNonCanonicalEncoding

\* a payload without vote flags replaced the votes of an earlier decode by
\* empty parts
C28_WitnessLeftEmpty ==
    /\ pc = "done" /\ err = "nil" /\ ~event.anyEpochVote
    /\ ~event.anyBlockVotes /\ event.anyTxs
    /\ target.epochVote = NoEpochVote /\ target.blockVotes = NoBlockVotes
    /\ call = "MutableEventPayload.UnmarshalBinary"

\* the sign bit and the magnitude on the wire
SignOnWire == prog[Len(prog) - 1].v[1]
AbsOnWire == prog[Len(prog)].v

\* the encoding Writer.I64 makes of v behind the same prefix
EncodingOfI64(v) ==
    MarshalBinaryAdapter(
        Append(SubSeq(prog, 1, Len(prog) - 2), Op("I64", v, 0))).out

\* C29: the value Reader.I64 returns for an accepted (sign bit, magnitude)
\* has no other accepted encoding, that is, the pair is the one Writer.I64
\* writes for the value; a magnitude above 2^63, and the magnitude 2^63
\* with sign bit 0, are rejected
C29_I64Injective ==
    /\ (pc = "done" /\ err = "nil")
       => blob = EncodingOfI64(vals[Len(vals)])
    /\ (pc = "done"
        /\ \/ Less64(MinInt64, AbsOnWire)
           \/ AbsOnWire = MinInt64 /\ SignOnWire = 0)
       => err # "nil"

\* a magnitude of at most 2^63 - 1 with either sign (negative zero aside),
\* and 2^63 with sign bit 1, are accepted as the value Writer.I64 encodes
\* that way
C29_InRangeInjective ==
    (pc = "done"
     /\ \/ Less64(AbsOnWire, MinInt64)
        \/ AbsOnWire = MinInt64 /\ SignOnWire = 1)
    => IF NegativeZero(SignOnWire = 1, AbsOnWire) THEN err # "nil"
       ELSE err = "nil" /\ blob = EncodingOfI64(vals[Len(vals)])

\* sign bit 0 with the magnitude 2^63 is accepted as the minimum, the value
\* of sign bit 1 with 2^63; sign bit 1 with 2^64 - 1 is accepted as 1
C29_Wraps ==
    /\ (pc = "done" /\ AbsOnWire = MinInt64)
       => err = "nil" /\ vals[Len(vals)] = MinInt64
    /\ (pc = "done" /\ AbsOnWire = Max64 /\ SignOnWire = 1)
       => err = "nil" /\ vals[Len(vals)] = FromInt(1)

\* the encoder wrote the payload hash: it is the write before the extra data
HashWritten ==
    /\ Len(prog) >= 2
    /\ prog[Len(prog) - 1] = Op("FixedBytes", event.payloadHash, 32)

\* C30: for a version-0 event the encoder writes the payload hash exactly
\* when the transactions flag is set, and the decoder, which reads it under
\* the same condition, finds the extra data where the encoder put it
C30_HashOnWireAgreed ==
    /\ (HeaderEncoded /\ merr = "nil" /\ event.version = 0)
       => (HashWritten <=> event.anyTxs)
    /\ (pc = "done" /\ input = "intact" /\ ValidHeader(event))
       => /\ err = "nil"
          /\ target.extra = event.extra
          /\ HashWritten => target.payloadHash = event.payloadHash

\* the same for version 1, and for the version-0 events without
\* misbehaviour-proofs, epoch-vote and block-votes flags
C30_AgreedOnReadFlags ==
    (input = "intact" /\ ValidHeader(event)
     /\ \/ event.version = 1
        \/ /\ ~event.anyMisbehaviourProofs
           /\ ~event.anyEpochVote /\ ~event.anyBlockVotes)
    => /\ (pc # "marshal")
          => (merr = "nil" /\ (HashWritten <=> AnyContent(event)))
       /\ (pc = "done")
          => /\ err = "nil"
             /\ target.extra = event.extra
             /\ target.payloadHash = event.payloadHash

\* the encoder writes the payload hash of a version-0 event with the epoch
\* vote flag alone, and the decoder does not accept its output
C30_VersionZeroVotes ==
    (input = "intact" /\ ValidHeader(event) /\ event.version = 0
     /\ ~event.anyTxs /\ AnyContent(event))
    => /\ (pc # "marshal") => (merr = "nil" /\ HashWritten)
       /\ (pc = "done") => err # "nil"

====
